---- MODULE Spec2Model ----
(***************************************************************************)
(* PEC demand forecasting: the feature engineering pipeline                *)
(* (src/src/feature_engineering.py), the training steps that persist the   *)
(* model artifacts (src/src/train_model.py, src/app.py) and the            *)
(* inference-time feature reconstruction (src/src/predict.py).             *)
(*                                                                         *)
(* A table (pandas DataFrame) is a record [cols, rows]: cols is the        *)
(* sequence of column names in column order, rows the sequence of rows,    *)
(* each row a record with one field per column.                            *)
(*                                                                         *)
(* Dates are day numbers, 0 = 2025-01-01.  Integer columns hold integers,  *)
(* string columns strings, float columns hold exact numbers (see Q).       *)
(***************************************************************************)
EXTENDS Integers, Sequences, FiniteSets, TLC

(***************************************************************************)
(* Exact numbers for the float columns.  [n, d, r] is n/d when r is FALSE  *)
(* and sqrt(n/d) when r is TRUE (only for n/d that is not the square of a  *)
(* rational), always in lowest terms, so that two numbers are equal iff    *)
(* their records are.  NaN is the null of a float column.                  *)
(***************************************************************************)
NaN == [n |-> 0, d |-> 0, r |-> FALSE]

Abs(a) == IF a < 0 THEN -a ELSE a

RECURSIVE GCD(_, _)
GCD(a, b) == IF b = 0 THEN a ELSE GCD(b, a % b)

Q(a, b) ==
    LET g == GCD(Abs(a), b)
    IN  [n |-> a \div g, d |-> b \div g, r |-> FALSE]

I(a) == Q(a, 1)

IsNull(x) == x.d = 0

\* the integer square root of a, between lo and hi: lo * lo <= a < hi * hi
RECURSIVE ISqrtFrom(_, _, _)
ISqrtFrom(a, lo, hi) ==
    IF hi - lo <= 1 THEN lo
    ELSE IF ((lo + hi) \div 2) * ((lo + hi) \div 2) <= a
    THEN ISqrtFrom(a, (lo + hi) \div 2, hi)
    ELSE ISqrtFrom(a, lo, (lo + hi) \div 2)

ISqrt(a) == ISqrtFrom(a, 0, 46341)

IsSquare(a) == ISqrt(a) * ISqrt(a) = a

\* sqrt of a rational x >= 0
SqrtQ(x) ==
    IF IsSquare(x.n) /\ IsSquare(x.d)
    THEN Q(ISqrt(x.n), ISqrt(x.d))
    ELSE [n |-> x.n, d |-> x.d, r |-> TRUE]

\* x + 1 and x / y for rationals (r = FALSE), y > 0; null in, null out
QPlusOne(x) == IF IsNull(x) THEN NaN ELSE Q(x.n + x.d, x.d)

QDiv(x, y) ==
    IF IsNull(x) \/ IsNull(y) THEN NaN
    ELSE Q(x.n * y.d, x.d * y.n)

QSub(x, y) ==
    IF IsNull(x) \/ IsNull(y) THEN NaN
    ELSE Q(x.n * y.d - y.n * x.d, x.d * y.d)

RECURSIVE SumSeq(_)
SumSeq(s) == IF s = <<>> THEN 0 ELSE Head(s) + SumSeq(Tail(s))

RECURSIVE SumSq(_)
SumSq(s) == IF s = <<>> THEN 0 ELSE Head(s) * Head(s) + SumSq(Tail(s))

RECURSIVE MaxSeq(_)
MaxSeq(s) ==
    IF Len(s) = 1 THEN s[1]
    ELSE LET m == MaxSeq(Tail(s)) IN IF s[1] >= m THEN s[1] ELSE m

RECURSIVE MinSeq(_)
MinSeq(s) ==
    IF Len(s) = 1 THEN s[1]
    ELSE LET m == MinSeq(Tail(s)) IN IF s[1] <= m THEN s[1] ELSE m

\* Series.mean / rolling().mean: null on no value
Mean(s) == IF s = <<>> THEN NaN ELSE Q(SumSeq(s), Len(s))

\* Series.std / rolling().std, ddof = 1: null on fewer than 2 values
Std(s) ==
    IF Len(s) < 2 THEN NaN
    ELSE SqrtQ(Q(Len(s) * SumSq(s) - SumSeq(s) * SumSeq(s), Len(s) * (Len(s) - 1)))

Max(s) == IF s = <<>> THEN NaN ELSE I(MaxSeq(s))

Min(s) == IF s = <<>> THEN NaN ELSE I(MinSeq(s))

\* DataFrame.tail(k) on a sequence
TailN(s, k) == IF Len(s) <= k THEN s ELSE SubSeq(s, Len(s) - k + 1, Len(s))

(***************************************************************************)
(* The calendar: what pandas' .dt accessors and strftime give for a day    *)
(* number.                                                                 *)
(***************************************************************************)
IsLeap(y) == (y % 4 = 0 /\ y % 100 # 0) \/ y % 400 = 0

DaysInYear(y) == IF IsLeap(y) THEN 366 ELSE 365

DaysInMonth(y, m) ==
    IF m = 2 THEN (IF IsLeap(y) THEN 29 ELSE 28)
    ELSE IF m \in {4, 6, 9, 11} THEN 30 ELSE 31

\* <<year, day of year (1-based)>> of day number t
RECURSIVE YearDay(_, _)
YearDay(t, y) ==
    IF t < 0 THEN YearDay(t + DaysInYear(y - 1), y - 1)
    ELSE IF t >= DaysInYear(y) THEN YearDay(t - DaysInYear(y), y + 1)
    ELSE <<y, t + 1>>

\* <<month, day of month>> of the k-th day (1-based) of year y
RECURSIVE MonthDay(_, _, _)
MonthDay(y, k, m) ==
    IF k > DaysInMonth(y, m) THEN MonthDay(y, k - DaysInMonth(y, m), m + 1)
    ELSE <<m, k>>

\* day 0 is 2025-01-01
Year(t) == YearDay(t, 2025)[1]

DayOfYear(t) == YearDay(t, 2025)[2]

Month(t) == MonthDay(Year(t), DayOfYear(t), 1)[1]

Day(t) == MonthDay(Year(t), DayOfYear(t), 1)[2]

\* Monday = 0; 2025-01-01 is a Wednesday
DayOfWeek(t) == (t + 2) % 7

DayNames == <<"Monday", "Tuesday", "Wednesday", "Thursday", "Friday", "Saturday", "Sunday">>

DayName(t) == DayNames[DayOfWeek(t) + 1]

Pad2(k) == IF k < 10 THEN "0" \o ToString(k) ELSE ToString(k)

\* strftime('%Y-%m-%d')
StrfTime(t) == ToString(Year(t)) \o "-" \o Pad2(Month(t)) \o "-" \o Pad2(Day(t))

\* FeatureEngineer.holidays
Holidays ==
    { "2025-01-26", "2025-03-14", "2025-03-31", "2025-04-10", "2025-04-14",
      "2025-05-01", "2025-08-15", "2025-08-27", "2025-10-02", "2025-10-24",
      "2025-11-01", "2025-12-25",
      "2026-01-26", "2026-03-03", "2026-03-25", "2026-03-30", "2026-04-14",
      "2026-05-01", "2026-08-15", "2026-08-16", "2026-10-02", "2026-10-13",
      "2026-11-01", "2026-11-14", "2026-12-25" }

B2I(b) == IF b THEN 1 ELSE 0

(***************************************************************************)
(* Strings of digits.  A pincode string is the sequence of its decimal     *)
(* digits: str(110001) is <<1,1,0,0,0,1>>, strings compare                 *)
(* lexicographically, and a CSV cell of digits read without a dtype is the *)
(* integer it spells.                                                      *)
(***************************************************************************)
RECURSIVE Str(_)
Str(k) == IF k < 10 THEN <<k>> ELSE Append(Str(k \div 10), k % 10)

RECURSIVE ParseInt(_)
ParseInt(s) == IF s = <<>> THEN 0 ELSE ParseInt(SubSeq(s, 1, Len(s) - 1)) * 10 + s[Len(s)]

RECURSIVE StrLess(_, _)
StrLess(a, b) ==
    IF b = <<>> THEN FALSE
    ELSE IF a = <<>> THEN TRUE
    ELSE IF a[1] # b[1] THEN a[1] < b[1]
    ELSE StrLess(Tail(a), Tail(b))

\* pincode_category is the one column whose dtype differs between the places
\* that produce it: a cell of it is tagged as a string or as an integer
StrCell(v) == [str |-> v]

IntCell(v) == [int |-> v]

(***************************************************************************)
(* Table helpers.                                                          *)
(***************************************************************************)
Range(s) == { s[i] : i \in DOMAIN s }

\* the sequence s itself, with its elements computed once
Seq1(s) == s \o <<>>

\* Series.unique() / pd.factorize uniques: the distinct values in order of
\* first appearance
Unique(s) ==
    LET firsts == { i \in DOMAIN s : \A j \in 1..(i - 1) : s[j] # s[i] }
    IN  [k \in 1..Cardinality(firsts) |->
            s[CHOOSE i \in firsts : Cardinality({ j \in firsts : j < i }) = k - 1]]

\* list.index(v): 0-based position of v in u
IndexOf(u, v) == (CHOOSE i \in DOMAIN u : u[i] = v) - 1

Column(rows, c) == Seq1([i \in DOMAIN rows |-> rows[i][c]])

\* [col for col in cols if col not in exclude]
ColsExcept(cols, exclude) == SelectSeq(cols, LAMBDA c : c \notin exclude)

(***************************************************************************)
(* FeatureEngineer._validate_and_fix_columns.  A table is its column names *)
(* in order and its rows, each a record over the column names.  On a table *)
(* that already has the six required columns no renaming, inference or     *)
(* default applies; pincode becomes a string and center_type is            *)
(* standardised.                                                           *)
(***************************************************************************)
RequiredCols == <<"date", "pincode", "footfall", "district", "state", "center_type">>

\* [col for col in required_cols if col not in df.columns]
MissingCols(df) == SelectSeq(RequiredCols, LAMBDA c : c \notin Range(df.cols))

\* column_mapping, in the order of the dict
ColumnMapping ==
    << <<"Date", "date">>, <<"DATE", "date">>, <<"transaction_date", "date">>,
       <<"visit_date", "date">>,
       <<"PIN", "pincode">>, <<"pin", "pincode">>, <<"PIN_code", "pincode">>,
       <<"pin_code", "pincode">>, <<"PINCODE", "pincode">>, <<"pec_id", "pincode">>,
       <<"center_id", "pincode">>,
       <<"Footfall", "footfall">>, <<"FOOTFALL", "footfall">>, <<"count", "footfall">>,
       <<"visitors", "footfall">>, <<"footfall_count", "footfall">>,
       <<"daily_count", "footfall">>, <<"transactions", "footfall">>,
       <<"enrollments", "footfall">>,
       <<"District", "district">>, <<"DISTRICT", "district">>, <<"dist", "district">>,
       <<"State", "state">>, <<"STATE", "state">>,
       <<"center_type", "center_type">>, <<"Center_Type", "center_type">>,
       <<"CENTER_TYPE", "center_type">>, <<"type", "center_type">>,
       <<"location_type", "center_type">>, <<"pec_type", "center_type">> >>

\* df.rename(columns={old_col: new_col}): the column keeps its place
RenameColumn(df, old_col, new_col) ==
    [cols |-> [i \in DOMAIN df.cols |-> IF df.cols[i] = old_col THEN new_col ELSE df.cols[i]],
     rows |-> Seq1([i \in DOMAIN df.rows |->
                 [c \in (DOMAIN df.rows[i] \ {old_col}) \cup {new_col} |->
                     IF c = new_col THEN df.rows[i][old_col] ELSE df.rows[i][c]]])]

\* the loop over column_mapping.items(), from the k-th item on (the table
\* after each item is computed once)
RECURSIVE ApplyMappings(_, _)
ApplyMappings(df, k) ==
    IF k > Len(ColumnMapping) THEN df
    ELSE CHOOSE out \in
           { ApplyMappings(d, k + 1) :
             d \in { IF ColumnMapping[k][1] \in Range(df.cols)
                        /\ ColumnMapping[k][2] \notin Range(df.cols)
                     THEN RenameColumn(df, ColumnMapping[k][1], ColumnMapping[k][2])
                     ELSE df } } : TRUE

\* step 1: synonyms are renamed when a required column is missing
Renamed(df) == IF MissingCols(df) # <<>> THEN ApplyMappings(df, 1) ELSE df

\* 'Urban' if x > 150 else ('Rural' if x < 100 else 'Semi-Urban')
InferCenterType(x) == IF x > 150 THEN "Urban" ELSE IF x < 100 THEN "Rural" ELSE "Semi-Urban"

\* df[c] = v: a new column after the others
WithColumn(df, c, v) ==
    [cols |-> Append(df.cols, c),
     rows |-> Seq1([i \in DOMAIN df.rows |-> df.rows[i] @@ (c :> v)])]

\* step 2: center_type inferred from footfall, or defaulted
WithCenterType(df) ==
    IF "center_type" \in Range(df.cols) THEN df
    ELSE IF "footfall" \in Range(df.cols)
    THEN [cols |-> Append(df.cols, "center_type"),
          rows |-> Seq1([i \in DOMAIN df.rows |->
                      df.rows[i] @@ ("center_type" :> InferCenterType(df.rows[i].footfall))])]
    ELSE WithColumn(df, "center_type", "Urban")

\* step 2: district and state defaulted
WithDefault(df, c, v) == IF c \in Range(df.cols) THEN df ELSE WithColumn(df, c, v)

\* a variant that writes a zero before the digits of every cell
AsTypeStr_Padded(v) == <<0>> \o (IF Head(ToString(v)) = "<" THEN v ELSE Str(v))

\* astype(str) of a cell: the digits of a number; a cell that is a string
\* (a sequence of digits, which prints with "<<") is kept
AsTypeStr(v) == IF Head(ToString(v)) = "<" THEN v ELSE Str(v)

ValidTypes == {"Urban", "Rural", "Semi-Urban"}

CenterTypeMapping(v) ==
    CASE v \in {"urban", "URBAN", "U"} -> "Urban"
      [] v \in {"rural", "RURAL", "R"} -> "Rural"
      [] v \in {"semi-urban", "semi urban", "SEMI-URBAN", "SEMI URBAN", "S", "semiurban"}
            -> "Semi-Urban"
      [] OTHER -> v

StandardCenterType(v) ==
    IF CenterTypeMapping(v) \in ValidTypes THEN CenterTypeMapping(v) ELSE "Urban"

\* steps 3 and 4: pincode as a string, center_type standardised
Coerced(df) ==
    [df EXCEPT !.rows =
        Seq1([i \in DOMAIN df.rows |->
            [c \in DOMAIN df.rows[i] |->
                IF c = "pincode" THEN AsTypeStr(df.rows[i][c])
                ELSE IF c = "center_type" THEN StandardCenterType(df.rows[i][c])
                ELSE df.rows[i][c]]])]

\* the table the caller passed, as the call leaves it: every step works on
\* the caller's DataFrame itself (rename(inplace=True), df[c] = ...)
ReconcileInPlace(df) ==
    CHOOSE out \in
      { Coerced(d) :
        d \in { WithDefault(c, "state", "Unknown State") :
        c \in { WithDefault(b, "district", "Unknown District") :
        b \in { WithCenterType(a) :
        a \in { Renamed(df) } } } } } : TRUE

ValueError(final_missing) == [kind |-> "ValueError", missing |-> final_missing]

\* a variant whose error names every required column
ValidateAndFixColumns_NamesRequired(df) ==
    CHOOSE out \in
      { IF MissingCols(d) # <<>> THEN ValueError(RequiredCols) ELSE d :
        d \in { ReconcileInPlace(df) } } : TRUE

\* the table returned, or the ValueError of the final validation
ValidateAndFixColumns(df) ==
    CHOOSE out \in
      { IF MissingCols(d) # <<>> THEN ValueError(MissingCols(d)) ELSE d :
        d \in { ReconcileInPlace(df) } } : TRUE

(***************************************************************************)
(* df.sort_values(['pincode', 'date']).reset_index(drop=True)              *)
(***************************************************************************)
RowLess(a, b) ==
    \/ StrLess(a.pincode, b.pincode)
    \/ a.pincode = b.pincode /\ a.date < b.date

\* rows ascending by (pincode, date); rows with equal keys keep their order
SortRows(rows) ==
    LET rank == Seq1([i \in DOMAIN rows |->
                    Cardinality({ j \in DOMAIN rows :
                        \/ RowLess(rows[j], rows[i])
                        \/ ~RowLess(rows[i], rows[j]) /\ j < i })])
    IN  Seq1([k \in DOMAIN rows |-> rows[CHOOSE i \in DOMAIN rows : rank[i] = k - 1]])

SortValues(df) == [df EXCEPT !.rows = SortRows(Seq1(df.rows))]

\* pin_history.sort_values('date')
SortByDate(rows) ==
    LET rank == Seq1([i \in DOMAIN rows |->
                    Cardinality({ j \in DOMAIN rows :
                        \/ rows[j].date < rows[i].date
                        \/ rows[j].date = rows[i].date /\ j < i })])
    IN  Seq1([k \in DOMAIN rows |-> rows[CHOOSE i \in DOMAIN rows : rank[i] = k - 1]])

(***************************************************************************)
(* groupby('pincode'): the group of row r is the rows with r's pincode.    *)
(***************************************************************************)
\* the values of column c in r's group, in table order, up to and with row r
GroupUpTo(rows, c, r) ==
    Column(SelectSeq(SubSeq(rows, 1, r), LAMBDA x : x.pincode = rows[r].pincode), c)

\* for every row r, the footfall of r's group up to and with row r
GroupedFootfall(rows) == Seq1([r \in DOMAIN rows |-> GroupUpTo(rows, "footfall", r)])

\* a variant that needs one more earlier row than the shift
FootfallLag_OneMore(g, k) == IF Len(g) > k + 1 THEN I(g[Len(g) - k]) ELSE NaN

\* a variant that fills a missing lag with the first value of the group
FootfallLag_Filled(g, k) == IF Len(g) > k THEN I(g[Len(g) - k]) ELSE I(g[1])

\* groupby('pincode')['footfall'].shift(k) at row r (g = grouped[r]): the
\* value k rows earlier in r's group, null when the group has no such row
FootfallLag(g, k) == IF Len(g) > k THEN I(g[Len(g) - k]) ELSE NaN

\* groupby('pincode')['footfall'].transform(rolling stat).shift(1) at row r,
\* with x.rolling(window=w, min_periods=1) seeing the last w values of the
\* group: the shift is applied to the transformed column of the whole table,
\* so row r takes the statistic computed at table row r - 1, whatever its
\* group
RollShift(grouped, r, w, stat) ==
    IF r = 1 THEN NaN
    ELSE LET x == TailN(grouped[r - 1], w)
         IN  CASE stat = "mean" -> Mean(x)
               [] stat = "std" -> Std(x)
               [] stat = "max" -> Max(x)
               [] stat = "min" -> Min(x)

\* the number of days in each lag / rolling window
Lag7 == 7

Lag14 == 14

Lag30 == 30

(***************************************************************************)
(* FeatureEngineer._add_temporal_features                                  *)
(***************************************************************************)
IsHoliday(t) == B2I(StrfTime(t) \in Holidays)

WeekOfMonth(t) == (Day(t) - 1) \div 7 + 1

TemporalCols ==
    <<"day_of_week", "day_name", "is_weekend", "is_monday", "month", "quarter",
      "week_of_month", "day_of_month", "is_first_week", "is_holiday",
      "is_day_after_holiday", "is_enrollment_season", "is_pension_month",
      "is_festival_season", "day_of_year">>

AddTemporalFeatures(df) ==
    LET hol == Seq1([i \in DOMAIN df.rows |-> [is_holiday |-> IsHoliday(df.rows[i].date),
                                               pincode |-> df.rows[i].pincode]])
        \* groupby('pincode')['is_holiday'].shift(1).fillna(0) at row i
        DayAfter(i) ==
            LET g == GroupUpTo(hol, "is_holiday", i)
            IN  IF Len(g) > 1 THEN g[Len(g) - 1] ELSE 0
        New(i) ==
            LET t == df.rows[i].date
            IN  [day_of_week |-> DayOfWeek(t),
                 day_name |-> DayName(t),
                 is_weekend |-> B2I(DayOfWeek(t) >= 5),
                 is_monday |-> B2I(DayOfWeek(t) = 0),
                 month |-> Month(t),
                 quarter |-> (Month(t) - 1) \div 3 + 1,
                 week_of_month |-> WeekOfMonth(t),
                 day_of_month |-> Day(t),
                 is_first_week |-> B2I(WeekOfMonth(t) = 1),
                 is_holiday |-> IsHoliday(t),
                 is_day_after_holiday |-> DayAfter(i),
                 is_enrollment_season |-> B2I(Month(t) \in {6, 7}),
                 is_pension_month |-> B2I(Month(t) = 11),
                 is_festival_season |-> B2I(Month(t) = 10),
                 day_of_year |-> DayOfYear(t)]
    IN  [cols |-> df.cols \o TemporalCols,
         rows |-> Seq1([i \in DOMAIN df.rows |-> df.rows[i] @@ New(i)])]

(***************************************************************************)
(* FeatureEngineer._add_geographic_features                                *)
(***************************************************************************)
TypeMapping(v) == CASE v = "Rural" -> 0 [] v = "Semi-Urban" -> 1 [] v = "Urban" -> 2

\* an empty cell of a text column of the CSV file: read_csv reads it as
\* null, the same as a cell that holds NaN
NullCell == "NaN"

\* the text columns of the raw table that keep a null through the
\* reconciliation
ObjectCols == {"district", "state"}

\* the uniques of pd.factorize: the values that are not null, in order of
\* first appearance
Uniques(col) == Unique(SelectSeq(col, LAMBDA v : v # NullCell))

\* pd.factorize(column)[0] at row i: -1 for a null
Factorize(col, i) == IF col[i] = NullCell THEN -1 ELSE IndexOf(Uniques(col), col[i])

GeographicCols ==
    <<"center_type_encoded", "is_urban", "is_rural", "state_encoded",
      "district_encoded", "pincode_category">>

AddGeographicFeatures(df) ==
    LET states == Uniques(Column(df.rows, "state"))
        districts == Uniques(Column(df.rows, "district"))
        Code(u, v) == IF v = NullCell THEN -1 ELSE IndexOf(u, v)
        New(i) ==
            [center_type_encoded |-> TypeMapping(df.rows[i].center_type),
             is_urban |-> B2I(df.rows[i].center_type = "Urban"),
             is_rural |-> B2I(df.rows[i].center_type = "Rural"),
             state_encoded |-> Code(states, df.rows[i].state),
             district_encoded |-> Code(districts, df.rows[i].district),
             pincode_category |-> StrCell(df.rows[i].pincode)]
    IN  [cols |-> df.cols \o GeographicCols,
         rows |-> Seq1([i \in DOMAIN df.rows |-> df.rows[i] @@ New(i)])]

(***************************************************************************)
(* FeatureEngineer._add_lag_features                                       *)
(***************************************************************************)
LagCols ==
    <<"footfall_lag_7", "footfall_lag_14", "footfall_lag_30",
      "footfall_rolling_mean_7", "footfall_rolling_mean_14",
      "footfall_rolling_mean_30", "footfall_rolling_std_7",
      "footfall_change_7d", "footfall_change_30d",
      "footfall_rolling_max_30", "footfall_rolling_min_30">>

AddLagFeatures(df) ==
    LET rows == df.rows
        grouped == GroupedFootfall(rows)
        New(r) ==
            LET lag7 == FootfallLag(grouped[r], Lag7)
                lag30 == FootfallLag(grouped[r], Lag30)
            IN  [footfall_lag_7 |-> lag7,
                 footfall_lag_14 |-> FootfallLag(grouped[r], Lag14),
                 footfall_lag_30 |-> lag30,
                 footfall_rolling_mean_7 |-> RollShift(grouped, r, Lag7, "mean"),
                 footfall_rolling_mean_14 |-> RollShift(grouped, r, Lag14, "mean"),
                 footfall_rolling_mean_30 |-> RollShift(grouped, r, Lag30, "mean"),
                 footfall_rolling_std_7 |-> RollShift(grouped, r, Lag7, "std"),
                 footfall_change_7d |-> QSub(I(rows[r].footfall), lag7),
                 footfall_change_30d |-> QSub(I(rows[r].footfall), lag30),
                 footfall_rolling_max_30 |-> RollShift(grouped, r, Lag30, "max"),
                 footfall_rolling_min_30 |-> RollShift(grouped, r, Lag30, "min")]
    IN  [cols |-> df.cols \o LagCols,
         rows |-> Seq1([r \in DOMAIN rows |-> rows[r] @@ New(r)])]

(***************************************************************************)
(* FeatureEngineer._add_interaction_features                               *)
(***************************************************************************)
InteractionCols ==
    <<"rural_pension_interaction", "urban_enrollment_interaction",
      "monday_first_week", "weekend_holiday", "lag_ratio_7_to_30">>

AddInteractionFeatures(df) ==
    LET New(i) ==
            LET x == df.rows[i]
            IN  [rural_pension_interaction |-> x.is_rural * x.is_pension_month,
                 urban_enrollment_interaction |-> x.is_urban * x.is_enrollment_season,
                 monday_first_week |-> x.is_monday * x.is_first_week,
                 weekend_holiday |-> x.is_weekend * x.is_holiday,
                 lag_ratio_7_to_30 |->
                     QDiv(x.footfall_lag_7, QPlusOne(x.footfall_rolling_mean_30))]
    IN  [cols |-> df.cols \o InteractionCols,
         rows |-> Seq1([i \in DOMAIN df.rows |-> df.rows[i] @@ New(i)])]

(***************************************************************************)
(* FeatureEngineer.engineer_features: the table it computes, and the table *)
(* it persists after df.dropna().  The float columns can hold a null, and  *)
(* so can the text columns district and state, when the file has an empty  *)
(* cell; every integer column is computed and never null.                  *)
(***************************************************************************)
FloatCols ==
    { "footfall_lag_7", "footfall_lag_14", "footfall_lag_30",
      "footfall_rolling_mean_7", "footfall_rolling_mean_14",
      "footfall_rolling_mean_30", "footfall_rolling_std_7",
      "footfall_change_7d", "footfall_change_30d",
      "footfall_rolling_max_30", "footfall_rolling_min_30", "lag_ratio_7_to_30" }

HasNull(row) ==
    \/ \E c \in FloatCols : IsNull(row[c])
    \/ \E c \in ObjectCols : row[c] = NullCell

DropNa(df) == [df EXCEPT !.rows = SelectSeq(df.rows, LAMBDA x : ~HasNull(x))]

ComputedFeatures(raw) ==
    CHOOSE out \in
      { AddInteractionFeatures(e) :
        e \in { AddLagFeatures(d) :
        d \in { AddGeographicFeatures(c) :
        c \in { AddTemporalFeatures(b) :
        b \in { SortValues(a) :
        a \in { ValidateAndFixColumns(raw) } } } } } } : TRUE

EngineerFeatures(raw) == DropNa(ComputedFeatures(raw))

IsTable(x) == "rows" \in DOMAIN x

\* engineer_features on any raw table: df['date'] is read before the
\* columns are reconciled and raises KeyError when there is no such column;
\* the ValueError of the reconciliation leaves the function; otherwise the
\* feature table is saved
EngineerFeaturesCall(raw) ==
    IF "date" \notin Range(raw.cols) THEN [kind |-> "KeyError"]
    ELSE IF ~IsTable(ValidateAndFixColumns(raw)) THEN ValidateAndFixColumns(raw)
    ELSE [kind |-> "saved", df |-> EngineerFeatures(raw)]

(***************************************************************************)
(* Training: the feature names the regressor is fitted on.                 *)
(***************************************************************************)
\* PECDemandModel._prepare_data
PrepareDataExclude ==
    { "date", "footfall", "pincode", "district", "state", "center_type",
      "day_name", "footfall_change_7d", "footfall_change_30d" }

\* the dashboard's Train Model action
DashboardExclude ==
    { "date", "footfall", "pincode", "district", "state", "center_type", "day_name" }

PrepareData(df) == ColsExcept(df.cols, PrepareDataExclude)

DashboardFeatureCols(df) == ColsExcept(df.cols, DashboardExclude)

(***************************************************************************)
(* PECPredictor.__init__                                                   *)
(***************************************************************************)
\* pd.read_csv(data_path, dtype={'pincode': str}): pincode stays the string
\* that was written; pincode_category, written as the same digits, is read
\* as an integer
ReadFeaturesCsv(df) ==
    [df EXCEPT !.rows =
        [i \in DOMAIN df.rows |->
            [df.rows[i] EXCEPT !.pincode_category = IntCell(ParseInt(@.str))]]]

RowsOf(hist, pincode) == SelectSeq(hist.rows, LAMBDA x : x.pincode = pincode)

\* PECPredictor._get_pincode_info
GetPincodeInfo(hist) ==
    [p \in Range(Column(hist.rows, "pincode")) |->
        LET first == RowsOf(hist, p)[1]
        IN  [district |-> first.district, state |-> first.state,
             center_type |-> first.center_type]]

NewPredictor(model, metadata, data) ==
    LET hist == ReadFeaturesCsv(data.df)
    IN  [model |-> model,
         feature_names |-> metadata.feature_names,
         historical_data |-> hist,
         pincode_info |-> GetPincodeInfo(hist),
         gens |-> [model |-> model.gen, metadata |-> metadata.gen, data |-> data.gen]]

(***************************************************************************)
(* PECPredictor._calculate_lag_features: the history features of the       *)
(* general path, from pin_history (the entity's rows of the loaded feature *)
(* table, ascending by date) and the target date.                          *)
(***************************************************************************)
\* how many trailing rows of the history are looked at
RecentRows == 60

Recent(pin_history, target_date) ==
    TailN(Column(SelectSeq(pin_history, LAMBDA x : x.date < target_date), "footfall"),
          RecentRows)

\* a variant that substitutes the latest value instead of the mean
LagOrMean_Latest(recent, k) ==
    IF Len(recent) >= k THEN I(recent[Len(recent) - k + 1]) ELSE I(recent[Len(recent)])

\* recent.iloc[-k]['footfall'] if len(recent) >= k else recent['footfall'].mean()
LagOrMean(recent, k) ==
    IF Len(recent) >= k THEN I(recent[Len(recent) - k + 1]) ELSE Mean(recent)

\* x or 10: Python takes 10 when x is falsy, that is 0.0; a NaN is truthy
OrTen(x) == IF x = I(0) THEN I(10) ELSE x

\* a variant without the branch for an empty history
CalculateLagFeatures_NoDefaults(pin_history, target_date) ==
    LET recent == Recent(pin_history, target_date)
    IN  [footfall_lag_7 |-> LagOrMean(recent, Lag7),
         footfall_lag_14 |-> LagOrMean(recent, Lag14),
         footfall_lag_30 |-> LagOrMean(recent, Lag30),
         footfall_rolling_mean_7 |-> Mean(TailN(recent, Lag7)),
         footfall_rolling_mean_14 |-> Mean(TailN(recent, Lag14)),
         footfall_rolling_mean_30 |-> Mean(TailN(recent, Lag30)),
         footfall_rolling_std_7 |-> OrTen(Std(TailN(recent, Lag7))),
         footfall_rolling_max_30 |-> Max(TailN(recent, Lag30)),
         footfall_rolling_min_30 |-> Min(TailN(recent, Lag30))]

CalculateLagFeatures(pin_history, target_date) ==
    LET recent == Recent(pin_history, target_date)
    IN  IF Len(recent) = 0
        THEN [footfall_lag_7 |-> I(100),
              footfall_lag_14 |-> I(100),
              footfall_lag_30 |-> I(100),
              footfall_rolling_mean_7 |-> I(100),
              footfall_rolling_mean_14 |-> I(100),
              footfall_rolling_mean_30 |-> I(100),
              footfall_rolling_std_7 |-> I(10),
              footfall_rolling_max_30 |-> I(150),
              footfall_rolling_min_30 |-> I(50)]
        ELSE [footfall_lag_7 |-> LagOrMean(recent, Lag7),
              footfall_lag_14 |-> LagOrMean(recent, Lag14),
              footfall_lag_30 |-> LagOrMean(recent, Lag30),
              footfall_rolling_mean_7 |-> Mean(TailN(recent, Lag7)),
              footfall_rolling_mean_14 |-> Mean(TailN(recent, Lag14)),
              footfall_rolling_mean_30 |-> Mean(TailN(recent, Lag30)),
              footfall_rolling_std_7 |-> OrTen(Std(TailN(recent, Lag7))),
              footfall_rolling_max_30 |-> Max(TailN(recent, Lag30)),
              footfall_rolling_min_30 |-> Min(TailN(recent, Lag30))]

(***************************************************************************)
(* PECPredictor._encode_categorical and _build_features                    *)
(***************************************************************************)
EncodeCategorical(P, value, column_type) ==
    LET unique_values == Unique(Column(P.historical_data.rows, column_type))
    IN  IF value \in Range(unique_values) THEN IndexOf(unique_values, value) ELSE 0

\* a variant whose type_mapping numbers the types in the other order
TypeMappingGet_UrbanFirst(v) ==
    CASE v = "Urban" -> 0 [] v = "Semi-Urban" -> 1 [] v = "Rural" -> 2 [] OTHER -> 1

\* type_mapping.get(center_type, 1)
TypeMappingGet(v) == IF v \in ValidTypes THEN TypeMapping(v) ELSE 1

\* what _build_features returns or raises
None == [kind |-> "None"]

KeyError == [kind |-> "KeyError"]

Frame(cols, row) == [kind |-> "frame", cols |-> cols, row |-> row]

\* feature_df[feature_names] of a one-row frame: the named columns, in order
SelectCols(row, names) ==
    IF Range(names) \subseteq DOMAIN row
    THEN Frame(names, [c \in Range(names) |-> row[c]])
    ELSE KeyError

\* the value `feature_df[feat] = 0` puts in column feat
ZeroFill(c) == IF c \in FloatCols THEN I(0) ELSE 0

\* the features dict of the general path
GeneralFeatures(P, pincode, target_date) ==
    LET info == P.pincode_info[pincode]
        pin_history == SortByDate(RowsOf(P.historical_data, pincode))
        f1 == [day_of_week |-> DayOfWeek(target_date),
               is_weekend |-> B2I(DayOfWeek(target_date) >= 5),
               is_monday |-> B2I(DayOfWeek(target_date) = 0),
               month |-> Month(target_date),
               quarter |-> (Month(target_date) - 1) \div 3 + 1,
               week_of_month |-> (Day(target_date) - 1) \div 7 + 1,
               day_of_month |-> Day(target_date),
               is_first_week |-> B2I((Day(target_date) - 1) \div 7 + 1 = 1),
               day_of_year |-> DayOfYear(target_date),
               is_holiday |-> 0,
               is_day_after_holiday |-> 0,
               is_enrollment_season |-> B2I(Month(target_date) \in {6, 7}),
               is_pension_month |-> B2I(Month(target_date) = 11),
               is_festival_season |-> B2I(Month(target_date) = 10),
               center_type_encoded |-> TypeMappingGet(info.center_type),
               is_urban |-> B2I(info.center_type = "Urban"),
               is_rural |-> B2I(info.center_type = "Rural"),
               state_encoded |-> EncodeCategorical(P, info.state, "state"),
               district_encoded |-> EncodeCategorical(P, info.district, "district")]
        f2 == f1 @@ CalculateLagFeatures(pin_history, target_date)
    IN  f2 @@ [rural_pension_interaction |-> f2.is_rural * f2.is_pension_month,
               urban_enrollment_interaction |-> f2.is_urban * f2.is_enrollment_season,
               monday_first_week |-> f2.is_monday * f2.is_first_week,
               weekend_holiday |-> f2.is_weekend * f2.is_holiday,
               lag_ratio_7_to_30 |->
                   QDiv(f2.footfall_lag_7, QPlusOne(f2.footfall_rolling_mean_30)),
               pincode_category |-> StrCell(pincode)]

\* a variant that returns only the columns the dict has
GeneralPath_DropMissing(P, pincode, target_date) ==
    LET features == GeneralFeatures(P, pincode, target_date)
        names == SelectSeq(P.feature_names, LAMBDA c : c \in DOMAIN features)
    IN  Frame(names, [c \in Range(names) |-> features[c]])

\* the general path: every name of feature_names, 0 where the dict has none
GeneralPath(P, pincode, target_date) ==
    LET features == GeneralFeatures(P, pincode, target_date)
    IN  Frame(P.feature_names,
              [c \in Range(P.feature_names) |->
                  IF c \in DOMAIN features THEN features[c] ELSE ZeroFill(c)])

\* the rows `existing` of the fast path
Existing(P, pincode, target_date) ==
    SelectSeq(P.historical_data.rows,
              LAMBDA x : x.pincode = pincode /\ x.date = target_date)

\* a variant that takes the fast path only strictly before the last date
TakesFastPath_StrictlyBefore(P, pincode, target_date) ==
    /\ target_date < MaxSeq(Column(RowsOf(P.historical_data, pincode), "date"))
    /\ Len(Existing(P, pincode, target_date)) > 0

\* target_date <= max_hist_date and a row for the date exists
TakesFastPath(P, pincode, target_date) ==
    /\ target_date <= MaxSeq(Column(RowsOf(P.historical_data, pincode), "date"))
    /\ Len(Existing(P, pincode, target_date)) > 0

BuildFeatures(P, pincode, target_date) ==
    IF pincode \notin DOMAIN P.pincode_info THEN KeyError
    ELSE IF Len(RowsOf(P.historical_data, pincode)) = 0 THEN None
    ELSE IF TakesFastPath(P, pincode, target_date)
         THEN SelectCols(Existing(P, pincode, target_date)[1], P.feature_names)
         ELSE GeneralPath(P, pincode, target_date)

(***************************************************************************)
(* PECPredictor.predict_single_day                                         *)
(***************************************************************************)
\* int(round(y)) of a rational y: Python rounds a half to the even neighbour
Round(y) ==
    LET lo == y.n \div y.d
        twice == 2 * (y.n - lo * y.d)
    IN  IF twice < y.d THEN lo
        ELSE IF twice > y.d THEN lo + 1
        ELSE IF lo % 2 = 0 THEN lo ELSE lo + 1

\* a variant that rounds without the floor at 0
Clamp_NoFloor(y) == Round(y)

\* max(0, int(round(prediction)))
Clamp(y) == IF Round(y) < 0 THEN 0 ELSE Round(y)

\* a variant without the lookup in pincode_info
PredictSingleDay_NoLookup(P, pincode, target_date, y) ==
    LET pin == Str(pincode)
        features == BuildFeatures(P, pin, target_date)
    IN  IF features.kind # "frame"
        THEN [op |-> "predict_single_day", pincode |-> pin, date |-> target_date,
              built |-> TRUE, features |-> features, called |-> FALSE, result |-> features]
        ELSE [op |-> "predict_single_day", pincode |-> pin, date |-> target_date,
              built |-> TRUE, features |-> features, called |-> TRUE,
              prediction |-> y, result |-> [kind |-> "int", value |-> Clamp(y)]]

\* the outcome of predict_single_day(pincode, date) when the regressor
\* answers y: what was returned or raised, the features that were built (if
\* any) and whether the regressor was called
PredictSingleDay(P, pincode, target_date, y) ==
    LET pin == Str(pincode)
        features == BuildFeatures(P, pin, target_date)
    IN  IF pin \notin DOMAIN P.pincode_info
        THEN [op |-> "predict_single_day", pincode |-> pin, date |-> target_date,
              built |-> FALSE, features |-> None, called |-> FALSE, result |-> None]
        ELSE IF features.kind # "frame"
        THEN [op |-> "predict_single_day", pincode |-> pin, date |-> target_date,
              built |-> TRUE, features |-> features, called |-> FALSE, result |-> features]
        ELSE [op |-> "predict_single_day", pincode |-> pin, date |-> target_date,
              built |-> TRUE, features |-> features, called |-> TRUE,
              prediction |-> y, result |-> [kind |-> "int", value |-> Clamp(y)]]

(***************************************************************************)
(* predict_week, predict_month, compare_pincodes.  ys holds the answers    *)
(* of the regressor, one for each single-day call of the batch.            *)
(***************************************************************************)
\* pd.DataFrame(records): a list without records gives a table without
\* columns
DataFrame(cols, rows) ==
    [kind |-> "DataFrame", cols |-> IF rows = <<>> THEN <<>> ELSE cols, rows |-> rows]

PredictionCols == <<"date", "day_name", "predicted_footfall">>

\* the loop of predict_week / predict_month over the dates, from the i-th
\* on: one predict_single_day per date (pred, computed once), a record
\* appended for every answer that is not None; an exception of a single-day
\* call leaves the loop
RECURSIVE DailyLoop(_, _, _, _, _, _)
DailyLoop(P, pincode, dates, ys, i, predictions) ==
    IF i > Len(dates) THEN DataFrame(PredictionCols, predictions)
    ELSE CHOOSE out \in
           { IF pred = KeyError THEN KeyError
             ELSE DailyLoop(P, pincode, dates, ys, i + 1,
                      IF pred = None THEN predictions
                      ELSE Append(predictions,
                               [date |-> StrfTime(dates[i]),
                                day_name |-> DayName(dates[i]),
                                predicted_footfall |-> pred.value])) :
             pred \in {PredictSingleDay(P, pincode, dates[i], ys[i]).result} } : TRUE

DailyPredictions(P, pincode, dates, ys) == DailyLoop(P, pincode, dates, ys, 1, <<>>)

\* a variant whose loop starts the day after the start date
PredictWeek_FromNextDay(P, pincode, start_date, ys) ==
    DailyPredictions(P, pincode, [i \in 1..7 |-> start_date + i], ys)

\* for day_offset in range(7): start_date + timedelta(days=day_offset)
PredictWeek(P, pincode, start_date, ys) ==
    DailyPredictions(P, pincode, [i \in 1..7 |-> start_date + i - 1], ys)

\* the day number of datetime(year, month, day), for years from 2025 on
RECURSIVE DaysBeforeYear(_)
DaysBeforeYear(y) == IF y <= 2025 THEN 0 ELSE DaysBeforeYear(y - 1) + DaysInYear(y - 1)

RECURSIVE DaysBeforeMonth(_, _)
DaysBeforeMonth(y, m) ==
    IF m <= 1 THEN 0 ELSE DaysBeforeMonth(y, m - 1) + DaysInMonth(y, m - 1)

DateOf(year, month, day) == DaysBeforeYear(year) + DaysBeforeMonth(year, month) + day - 1

\* the first day of the next month minus one day
EndOfMonth(year, month) ==
    IF month = 12 THEN DateOf(year + 1, 1, 1) - 1 ELSE DateOf(year, month + 1, 1) - 1

\* current_date runs from datetime(year, month, 1) to the end of the month
PredictMonth(P, pincode, year, month, ys) ==
    LET start_date == DateOf(year, month, 1)
        end_date == EndOfMonth(year, month)
    IN  DailyPredictions(P, pincode,
            [i \in 1..(end_date - start_date + 1) |-> start_date + i - 1], ys)

CompareCols == <<"pincode", "district", "state", "center_type", "predicted_footfall">>

\* tosort with the entries at i and j exchanged
Swap(tosort, i, j) == [tosort EXCEPT ![i] = tosort[j], ![j] = tosort[i]]

\* the insertion sort of the positions pl..pr of tosort by the keys v: the
\* positions come to hold their entries in ascending order of the key,
\* entries of equal key in the order they had
InsertionSort(v, tosort, pl, pr) ==
    [k \in DOMAIN tosort |->
        IF k < pl \/ k > pr THEN tosort[k]
        ELSE tosort[CHOOSE i \in pl..pr :
                 Cardinality({ j \in pl..pr :
                     \/ v[tosort[j]] < v[tosort[i]]
                     \/ v[tosort[j]] = v[tosort[i]] /\ j < i }) = k - pl]]

\* the partition loop of the quicksort around the pivot key vp: pi moves
\* right past the smaller keys, pj left past the larger ones, the two
\* entries are exchanged, until the two meet; <<tosort, pi>> at the end
RECURSIVE PartitionLoop(_, _, _, _, _)
PartitionLoop(v, tosort, vp, pi, pj) ==
    LET i == CHOOSE k \in (pi + 1)..Len(tosort) :
                 /\ ~(v[tosort[k]] < vp)
                 /\ \A m \in (pi + 1)..(k - 1) : v[tosort[m]] < vp
        j == CHOOSE k \in 1..(pj - 1) :
                 /\ ~(vp < v[tosort[k]])
                 /\ \A m \in (k + 1)..(pj - 1) : vp < v[tosort[m]]
    IN  IF i >= j THEN <<tosort, i>>
        ELSE PartitionLoop(v, Swap(tosort, i, j), vp, i, j)

\* argsort(kind='quicksort') of the library on the positions pl..pr: a range
\* of more than 17 entries is partitioned around the median of its first,
\* middle and last key and its two parts are sorted the same way, a shorter
\* one is sorted by insertion (the fall back to heapsort, taken after
\* 2 * floor(log2(n)) nested partitions, needs more than 33 entries)
RECURSIVE AQuicksort(_, _, _, _)
AQuicksort(v, tosort, pl, pr) ==
    IF pr - pl > 16
    THEN LET pm == pl + ((pr - pl) \div 2)
             a1 == IF v[tosort[pm]] < v[tosort[pl]] THEN Swap(tosort, pm, pl) ELSE tosort
             a2 == IF v[a1[pr]] < v[a1[pm]] THEN Swap(a1, pr, pm) ELSE a1
             a3 == IF v[a2[pm]] < v[a2[pl]] THEN Swap(a2, pm, pl) ELSE a2
         IN  CHOOSE out \in
               { AQuicksort(v, AQuicksort(v, Swap(part[1], part[2], pr - 1),
                                          pl, part[2] - 1),
                            part[2] + 1, pr) :
                 part \in { PartitionLoop(v, Swap(a, pm, pr - 1), v[a[pm]], pl, pr - 1) :
                            a \in {a3} } } : TRUE
    ELSE InsertionSort(v, tosort, pl, pr)

\* nargsort(items, kind='quicksort', ascending=False): the items are
\* reversed, sorted ascending, and the positions reversed again
NArgsortDescending(items) ==
    LET n == Len(items)
    IN  CHOOSE out \in
          { [k \in 1..n |-> n + 1 - sorted[n + 1 - k]] :
            sorted \in { AQuicksort([i \in 1..n |-> items[n + 1 - i]],
                                    [i \in 1..n |-> i], 1, n) } } : TRUE

\* sort_values('predicted_footfall', ascending=False) with the default
\* kind='quicksort', which is not a stable sort: the rows come out in
\* non-increasing order, rows of equal value in the order the quicksort
\* leaves them in
SortValuesDescending(rows) ==
    { Seq1([k \in DOMAIN rows |-> rows[indexer[k]]]) :
        indexer \in { NArgsortDescending(Column(rows, "predicted_footfall")) } }

\* the loop of compare_pincodes over the list, from the i-th entity on
\* (pred is computed once): the list of results, or the exception of a
\* single-day call
RECURSIVE CompareLoop(_, _, _, _, _, _)
CompareLoop(P, pincodes, date, ys, i, results) ==
    IF i > Len(pincodes) THEN [kind |-> "list", items |-> results]
    ELSE CHOOSE out \in
           { IF pred = KeyError THEN KeyError
             ELSE CompareLoop(P, pincodes, date, ys, i + 1,
                      IF pred # None /\ Str(pincodes[i]) \in DOMAIN P.pincode_info
                      THEN Append(results,
                               [pincode |-> Str(pincodes[i]),
                                district |-> P.pincode_info[Str(pincodes[i])].district,
                                state |-> P.pincode_info[Str(pincodes[i])].state,
                                center_type |-> P.pincode_info[Str(pincodes[i])].center_type,
                                predicted_footfall |-> pred.value])
                      ELSE results) :
             pred \in {PredictSingleDay(P, pincodes[i], date, ys[i]).result} } : TRUE

\* the outcomes of compare_pincodes(pincodes, date): the sorted table, or
\* the KeyError of sort_values on a table without columns
ComparePincodes(P, pincodes, date, ys) ==
    UNION { IF results = KeyError THEN {KeyError}
            ELSE IF results.items = <<>> THEN {KeyError}
            ELSE { DataFrame(CompareCols, sorted) :
                       sorted \in SortValuesDescending(results.items) } :
            results \in {CompareLoop(P, pincodes, date, ys, 1, <<>>)} }

(***************************************************************************)
(* The inputs of the model.                                                *)
(***************************************************************************)
\* series lengths of the first entity
MinLen == 29

MaxLen == 62

\* series length of the second entity, when there is one
SecondLen == 33

\* day number of the first observation
StartDay == 12

\* how far past the last observation a target date lies
Horizon == 7

NumShapes == 2

Layouts == {"solo", "gap", "pair"}

\* two of PECDataGenerator.pincodes, with their attributes
PinA == 110001

PinB == 562157

\* an id that no table holds
PinUnknown == 999999

Footfall(shape, base, i) ==
    CASE shape = 1 -> base
      [] shape = 2 -> base + i
      [] OTHER -> base + ((i * i + shape) % 7) * 5

\* len observations of one entity from StartDay on, one per day; with gap,
\* the day before the last observation is missing
Series(pincode, district, state, center_type, base, len, shape, gap) ==
    [i \in 1..len |->
        [date |-> StartDay + i - 1 + (IF gap /\ i = len THEN 1 ELSE 0),
         pincode |-> pincode,
         district |-> district,
         state |-> state,
         center_type |-> center_type,
         footfall |-> Footfall(shape, base, i)]]

RawCols == <<"date", "pincode", "district", "state", "center_type", "footfall">>

RawTable(len, shape, layout) ==
    [cols |-> RawCols,
     rows |->
        (IF layout = "pair"
         THEN Series(PinB, "Bangalore Rural", "Karnataka", "Rural", 85, SecondLen, shape, FALSE)
         ELSE <<>>)
        \o Series(PinA, "Central Delhi", "Delhi", "Urban", 180, len, shape, layout = "gap")]

\* what the regressor may answer
RegressorOutputs == { Q(-3, 2), Q(5, 2), Q(7, 2) }

(***************************************************************************)
(* State.                                                                  *)
(***************************************************************************)
VARIABLES
    rawFile,     \* data/raw/pec_footfall_data.csv
    featFile,    \* data/processed/pec_features.csv
    modelFile,   \* models/pec_demand_model.json
    metaFile,    \* models/model_metadata.pkl
    predictor,   \* the PECPredictor of the serving process
    last,        \* the outcome of the last prediction call
    trainPc,     \* where the dashboard's Train Model handler stands
    loading      \* the PECPredictor under construction

vars == <<rawFile, featFile, modelFile, metaFile, predictor, last, trainPc, loading>>

\* a file that was never written; gen numbers the retraining run that wrote
\* a file (it is bookkeeping of the model, not content of the file)
NoFile == [gen |-> 0]

NoPredictor == [gens |-> [model |-> 0, metadata |-> 0, data |-> 0]]

NoCall == [op |-> "none"]

NotLoading == [step |-> "idle"]

Init ==
    /\ \E len \in MinLen..MaxLen, shape \in 1..NumShapes, layout \in Layouts :
           rawFile = RawTable(len, shape, layout)
    /\ featFile = NoFile
    /\ modelFile = NoFile
    /\ metaFile = NoFile
    /\ predictor = NoPredictor
    /\ last = NoCall
    /\ trainPc = "idle"
    /\ loading = NotLoading

(***************************************************************************)
(* The pipeline, one process: engineer, train, load, predict.              *)
(***************************************************************************)
\* FeatureEngineer.engineer_features
Engineer ==
    /\ featFile = NoFile
    /\ featFile' = [gen |-> 1, df |-> EngineerFeatures(rawFile)]
    /\ UNCHANGED <<rawFile, modelFile, metaFile, predictor, last, trainPc, loading>>

\* PECDemandModel.train_model: fits on the persisted table and saves the
\* regressor and the metadata; fitting raises on an empty table
TrainModel ==
    /\ featFile # NoFile
    /\ modelFile = NoFile
    /\ Len(featFile.df.rows) > 0
    /\ modelFile' = [gen |-> featFile.gen, feature_names |-> PrepareData(featFile.df)]
    /\ metaFile' = [gen |-> featFile.gen, feature_names |-> PrepareData(featFile.df)]
    /\ UNCHANGED <<rawFile, featFile, predictor, last, trainPc, loading>>

\* PECPredictor(): loads the three artifacts
LoadPredictor ==
    /\ predictor = NoPredictor
    /\ modelFile # NoFile /\ metaFile # NoFile /\ featFile # NoFile
    /\ predictor' = NewPredictor(modelFile, metaFile, featFile)
    /\ UNCHANGED <<rawFile, featFile, modelFile, metaFile, last, trainPc, loading>>

\* the entities of the loaded table, in the order of pincode_info
KnownPincodes(P) ==
    LET u == Unique(Column(P.historical_data.rows, "pincode"))
    IN  [i \in 1..Len(u) |-> ParseInt(u[i])]

\* the dates a prediction is asked for: before, inside and after the history
TargetDates(P) ==
    LET dates == Column(P.historical_data.rows, "date")
    IN  { MinSeq(dates) - 1, MaxSeq(dates) - 1, MaxSeq(dates),
          MaxSeq(dates) + 1, MaxSeq(dates) + Horizon }

\* one prediction call of the command-line interface, which loads a
\* predictor, answers one request and exits
Predict ==
    /\ predictor # NoPredictor
    /\ last = NoCall
    /\ \E pincode \in {PinA, PinB, PinUnknown}, d \in TargetDates(predictor),
          y \in RegressorOutputs :
           last' = PredictSingleDay(predictor, pincode, d, y)
    /\ UNCHANGED <<rawFile, featFile, modelFile, metaFile, predictor, trainPc, loading>>

Next == Engineer \/ TrainModel \/ LoadPredictor \/ Predict

Spec == Init /\ [][Next]_vars

(***************************************************************************)
(* Retraining from the dashboard while the dashboard serves.  Streamlit    *)
(* runs every session's script in a thread of its own: one session runs    *)
(* the Train Model handler, which writes the raw file and the three        *)
(* artifacts one after the other, each write a step of its own, while      *)
(* another session's load_predictor() constructs a PECPredictor, which     *)
(* reads them one after the other.                                         *)
(***************************************************************************)
\* how many retraining runs are followed
MaxGen == 2

\* series lengths of the tables that are uploaded
RetrainLens == {30, 31, 40}

\* the artifacts of a first run of run_pipeline.py, nothing loaded yet
InitRetrain ==
    /\ \E len \in RetrainLens :
           /\ Len(EngineerFeatures(RawTable(len, 1, "solo")).rows) > 0
           /\ rawFile = RawTable(len, 1, "solo")
    /\ featFile = [gen |-> 1, df |-> EngineerFeatures(rawFile)]
    /\ modelFile = [gen |-> 1, feature_names |-> PrepareData(featFile.df)]
    /\ metaFile = [gen |-> 1, feature_names |-> PrepareData(featFile.df)]
    /\ predictor = NoPredictor
    /\ last = NoCall
    /\ trainPc = "idle"
    /\ loading = NotLoading

\* raw_data.to_csv('data/raw/pec_footfall_data.csv')
DashSaveUpload ==
    /\ trainPc = "idle"
    /\ featFile.gen < MaxGen
    /\ \E len \in RetrainLens, shape \in 1..NumShapes :
           rawFile' = RawTable(len, shape, "solo")
    /\ trainPc' = "engineer"
    /\ UNCHANGED <<featFile, modelFile, metaFile, predictor, last, loading>>

\* engineer.engineer_features(...) writes pec_features.csv
DashEngineer ==
    /\ trainPc = "engineer"
    /\ featFile' = [gen |-> featFile.gen + 1, df |-> EngineerFeatures(rawFile)]
    /\ trainPc' = "fit"
    /\ UNCHANGED <<rawFile, modelFile, metaFile, predictor, last, loading>>

\* train_test_split(...), model.fit(...) and model.save_model(...); the
\* split raises on a table of fewer than two rows (the train set would be
\* empty) and the handler's except branch ends the run
DashSaveModel ==
    /\ trainPc = "fit"
    /\ IF Len(featFile.df.rows) > 1
       THEN /\ modelFile' = [gen |-> featFile.gen,
                             feature_names |-> DashboardFeatureCols(featFile.df)]
            /\ trainPc' = "metadata"
       ELSE /\ trainPc' = "idle"
            /\ UNCHANGED modelFile
    /\ UNCHANGED <<rawFile, featFile, metaFile, predictor, last, loading>>

\* joblib.dump(metadata, 'models/model_metadata.pkl')
DashDumpMetadata ==
    /\ trainPc = "metadata"
    /\ metaFile' = [gen |-> modelFile.gen, feature_names |-> modelFile.feature_names]
    /\ trainPc' = "clear"
    /\ UNCHANGED <<rawFile, featFile, modelFile, predictor, last, loading>>

\* clear_model_cache(): the next load_predictor() of any session
\* constructs a predictor
DashClearCache ==
    /\ trainPc = "clear"
    /\ predictor' = NoPredictor
    /\ trainPc' = "sleep"
    /\ UNCHANGED <<rawFile, featFile, modelFile, metaFile, last, loading>>

\* time.sleep(2), during which the other sessions run and may fill the
\* cache again, then st.rerun(): the training session's script starts
\* over, and its load_predictor() is the load steps below
DashRerun ==
    /\ trainPc = "sleep"
    /\ trainPc' = "idle"
    /\ UNCHANGED <<rawFile, featFile, modelFile, metaFile, predictor, last, loading>>

\* PECPredictor.__init__, statement by statement
LoadModelStep ==
    /\ predictor = NoPredictor
    /\ loading = NotLoading
    /\ loading' = [step |-> "model", model |-> modelFile]
    /\ UNCHANGED <<rawFile, featFile, modelFile, metaFile, predictor, last, trainPc>>

LoadMetadataStep ==
    /\ loading.step = "model"
    /\ loading' = [step |-> "metadata", model |-> loading.model, metadata |-> metaFile]
    /\ UNCHANGED <<rawFile, featFile, modelFile, metaFile, predictor, last, trainPc>>

LoadDataStep ==
    /\ loading.step = "metadata"
    /\ predictor' = NewPredictor(loading.model, loading.metadata, featFile)
    /\ loading' = NotLoading
    /\ UNCHANGED <<rawFile, featFile, modelFile, metaFile, last, trainPc>>

\* the Reload Model button of the sidebar: clear_model_cache() at any
\* moment, also between the writes of a retraining run
ReloadModel ==
    /\ predictor # NoPredictor
    /\ predictor' = NoPredictor
    /\ UNCHANGED <<rawFile, featFile, modelFile, metaFile, last, trainPc, loading>>

NextRetrain ==
    \/ DashSaveUpload \/ DashEngineer \/ DashSaveModel \/ DashDumpMetadata
    \/ DashClearCache \/ DashRerun \/ ReloadModel \/ LoadModelStep
    \/ LoadMetadataStep \/ LoadDataStep

SpecRetrain == InitRetrain /\ [][NextRetrain]_vars

(***************************************************************************)
(* The batch requests of the command-line interface and the menu: a week,  *)
(* a month, a comparison of entities.                                      *)
(***************************************************************************)
\* PECDataGenerator.pincodes
GeneratorPincodes ==
    << [pincode |-> 110001, district |-> "Central Delhi", state |-> "Delhi", type |-> "Urban", base_footfall |-> 180],
       [pincode |-> 400001, district |-> "Mumbai City", state |-> "Maharashtra", type |-> "Urban", base_footfall |-> 220],
       [pincode |-> 560001, district |-> "Bangalore Urban", state |-> "Karnataka", type |-> "Urban", base_footfall |-> 200],
       [pincode |-> 600001, district |-> "Chennai", state |-> "Tamil Nadu", type |-> "Urban", base_footfall |-> 190],
       [pincode |-> 700001, district |-> "Kolkata", state |-> "West Bengal", type |-> "Urban", base_footfall |-> 175],
       [pincode |-> 500001, district |-> "Hyderabad", state |-> "Telangana", type |-> "Urban", base_footfall |-> 185],
       [pincode |-> 411001, district |-> "Pune", state |-> "Maharashtra", type |-> "Urban", base_footfall |-> 165],
       [pincode |-> 380001, district |-> "Ahmedabad", state |-> "Gujarat", type |-> "Urban", base_footfall |-> 170],
       [pincode |-> 562157, district |-> "Bangalore Rural", state |-> "Karnataka", type |-> "Rural", base_footfall |-> 85],
       [pincode |-> 431001, district |-> "Aurangabad", state |-> "Maharashtra", type |-> "Semi-Urban", base_footfall |-> 110],
       [pincode |-> 226001, district |-> "Lucknow", state |-> "Uttar Pradesh", type |-> "Urban", base_footfall |-> 160],
       [pincode |-> 302001, district |-> "Jaipur", state |-> "Rajasthan", type |-> "Urban", base_footfall |-> 155],
       [pincode |-> 160001, district |-> "Chandigarh", state |-> "Chandigarh", type |-> "Urban", base_footfall |-> 140],
       [pincode |-> 682001, district |-> "Ernakulam", state |-> "Kerala", type |-> "Urban", base_footfall |-> 135],
       [pincode |-> 800001, district |-> "Patna", state |-> "Bihar", type |-> "Urban", base_footfall |-> 125],
       [pincode |-> 751001, district |-> "Khordha", state |-> "Odisha", type |-> "Urban", base_footfall |-> 115],
       [pincode |-> 641001, district |-> "Coimbatore", state |-> "Tamil Nadu", type |-> "Urban", base_footfall |-> 145],
       [pincode |-> 530001, district |-> "Visakhapatnam", state |-> "Andhra Pradesh", type |-> "Urban", base_footfall |-> 130],
       [pincode |-> 784001, district |-> "Sonitpur", state |-> "Assam", type |-> "Semi-Urban", base_footfall |-> 95],
       [pincode |-> 361001, district |-> "Jamnagar", state |-> "Gujarat", type |-> "Semi-Urban", base_footfall |-> 100] >>

\* how many of the generator's entities the large table holds, and how many
\* days of each
ManyEntities == 18

ManyLen == 31

\* generate_footfall_data: every entity on every date
ManyTable ==
    LET S(k) == LET g == GeneratorPincodes[k]
                IN  Series(g.pincode, g.district, g.state, g.type, g.base_footfall,
                           ManyLen, 1, FALSE)
        F[k \in 0..ManyEntities] == IF k = 0 THEN <<>> ELSE F[k - 1] \o S(k)
    IN  [cols |-> RawCols, rows |-> F[ManyEntities]]

BatchLens == {31, 35, 62}

\* what the regressor may answer to the n calls of one batch: the same
\* every time, rising, falling, or falling with the first two equal
RegressorAnswers(n) ==
    { [i \in 1..n |-> y] : y \in RegressorOutputs }
    \cup { [i \in 1..n |-> I(100 + i)], [i \in 1..n |-> I(100 - i)],
           [i \in 1..n |-> I(100 - i + (IF i = 2 THEN 1 ELSE 0))] }

InitBatch ==
    /\ \/ \E len \in BatchLens, shape \in 1..NumShapes, layout \in Layouts :
              rawFile = RawTable(len, shape, layout)
       \/ rawFile = ManyTable
    /\ featFile = NoFile
    /\ modelFile = NoFile
    /\ metaFile = NoFile
    /\ predictor = NoPredictor
    /\ last = NoCall
    /\ trainPc = "idle"
    /\ loading = NotLoading

LastDate(P) == MaxSeq(Column(P.historical_data.rows, "date"))

\* the start dates a week is asked from: the day before the last date of
\* the history, and the first Monday after it
WeekStarts(P) ==
    { LastDate(P) - 1 } \cup { d \in (LastDate(P) + 1)..(LastDate(P) + 7) : DayOfWeek(d) = 0 }

\* the --week request of the command line: result is what
\* predictor.predict_week(args.pincode, args.week) returns or raises, ended
\* is how main ends: its last statement, predictions['predicted_footfall']
\* .sum(), raises KeyError on the table without columns that an unknown
\* pincode gives
PredictWeekCall ==
    /\ predictor # NoPredictor
    /\ last = NoCall
    /\ \E pincode \in {PinA, PinB, PinUnknown}, s \in WeekStarts(predictor),
          ys \in RegressorAnswers(7) :
       \E result \in { PredictWeek(predictor, pincode, s, ys) } :
           last' = [op |-> "predict_week", pincode |-> Str(pincode), start_date |-> s,
                    result |-> result,
                    ended |-> IF result = KeyError THEN KeyError
                              ELSE IF "predicted_footfall" \notin Range(result.cols)
                              THEN KeyError
                              ELSE None]
    /\ UNCHANGED <<rawFile, featFile, modelFile, metaFile, predictor, trainPc, loading>>

MonthsAsked == { <<2025, 2>>, <<2025, 12>> }

\* predictor.predict_month(args.pincode, args.year, args.month)
PredictMonthCall ==
    /\ predictor # NoPredictor
    /\ last = NoCall
    /\ \E pincode \in {PinA, PinUnknown}, ym \in MonthsAsked, ys \in RegressorAnswers(31) :
           last' = [op |-> "predict_month", pincode |-> Str(pincode),
                    year |-> ym[1], month |-> ym[2],
                    result |-> PredictMonth(predictor, pincode, ym[1], ym[2], ys)]
    /\ UNCHANGED <<rawFile, featFile, modelFile, metaFile, predictor, trainPc, loading>>

\* the lists a comparison is asked for: empty, unknown only, known only,
\* mixed, and every known entity
CompareLists(P) ==
    { <<>>, <<PinUnknown>>, <<PinA>>, <<PinA, PinB>>, <<PinB, PinA>>,
      <<PinA, PinUnknown, PinB>>, KnownPincodes(P) }

\* predictor.compare_pincodes(pincodes, date_str)
CompareCall ==
    /\ predictor # NoPredictor
    /\ last = NoCall
    /\ \E pincodes \in CompareLists(predictor) :
       \E ys \in RegressorAnswers(Len(pincodes)) :
       \E out \in ComparePincodes(predictor, pincodes, LastDate(predictor) + 1, ys) :
           last' = [op |-> "compare_pincodes",
                    pincodes |-> [i \in 1..Len(pincodes) |-> Str(pincodes[i])],
                    date |-> LastDate(predictor) + 1,
                    result |-> out]
    /\ UNCHANGED <<rawFile, featFile, modelFile, metaFile, predictor, trainPc, loading>>

NextBatch ==
    \/ Engineer \/ TrainModel \/ LoadPredictor
    \/ Predict \/ PredictWeekCall \/ PredictMonthCall \/ CompareCall

SpecBatch == InitBatch /\ [][NextBatch]_vars

(***************************************************************************)
(* Reconciling the columns of the raw file that engineer_features is       *)
(* handed (raw_data_path, any CSV put there): tables whose columns carry   *)
(* synonyms of the required names, lack some of them, or hold center_type  *)
(* and pincode values in other spellings.  (The dashboard saves an upload  *)
(* as the raw file only when it has date, pincode and footfall under       *)
(* these names; the command line and the pipeline read the file as it is.) *)
(***************************************************************************)
\* the number of days of such a raw file
ReconcileLen == 32

\* a pincode that has five digits once read as a number ('011001')
PinShort == 11001

Canonical == [c \in Range(RawCols) |-> c]

CenterValues ==
    { "Urban", "rural", "RURAL", "R", "semi urban", "Semi-urban", "SEMI-URBAN", "Village" }

\* the raw files: naming gives each required column its name in the
\* table ("" when the table lacks it), extra lists further columns <<name,
\* the required column whose data it repeats>>
RawFileShapes ==
    { [naming |-> [Canonical EXCEPT ![ColumnMapping[k][2]] = ColumnMapping[k][1]],
       extra |-> <<>>, pincode |-> PinA, center_type |-> "Urban", base |-> 180] :
          k \in DOMAIN ColumnMapping }
    \cup { [naming |-> [Canonical EXCEPT ![c] = ""],
            extra |-> <<>>, pincode |-> PinA, center_type |-> "Urban", base |-> b] :
               c \in Range(RawCols), b \in {95, 145} }
    \cup { [naming |-> n, extra |-> <<>>, pincode |-> PinA, center_type |-> "rural",
            base |-> 180] :
               n \in { [Canonical EXCEPT !["pincode"] = "PIN", !["footfall"] = ""],
                       [Canonical EXCEPT !["date"] = "Date", !["district"] = ""],
                       [Canonical EXCEPT !["footfall"] = "count", !["center_type"] = ""],
                       [Canonical EXCEPT !["state"] = "STATE", !["pincode"] = ""] } }
    \cup { [naming |-> [Canonical EXCEPT !["pincode"] = "PIN"],
            extra |-> << <<"pin", "pincode">> >>, pincode |-> PinA,
            center_type |-> "Urban", base |-> 180],
           [naming |-> Canonical,
            extra |-> << <<"count", "footfall">> >>, pincode |-> PinA,
            center_type |-> "Urban", base |-> 180] }
    \cup { [naming |-> Canonical, extra |-> <<>>, pincode |-> p, center_type |-> v,
            base |-> 180] : p \in {PinA, PinShort}, v \in CenterValues }

RawFileTable(u) ==
    LET series == Series(u.pincode, "Central Delhi", "Delhi", u.center_type, u.base,
                         ReconcileLen, 2, FALSE)
        kept == SelectSeq(RawCols, LAMBDA c : u.naming[c] # "")
        names == [i \in 1..Len(kept) |-> u.naming[kept[i]]]
              \o [i \in 1..Len(u.extra) |-> u.extra[i][1]]
        Source(name) ==
            IF \E c \in Range(kept) : u.naming[c] = name
            THEN CHOOSE c \in Range(kept) : u.naming[c] = name
            ELSE (CHOOSE i \in DOMAIN u.extra : u.extra[i][1] = name)
        SourceCol(name) ==
            IF \E c \in Range(kept) : u.naming[c] = name THEN Source(name)
            ELSE u.extra[Source(name)][2]
    IN  [cols |-> names,
         rows |-> Seq1([i \in DOMAIN series |->
                     [name \in Range(names) |-> series[i][SourceCol(name)]]])]

InitReconcile ==
    /\ \E u \in RawFileShapes : rawFile = RawFileTable(u)
    /\ featFile = NoFile
    /\ modelFile = NoFile
    /\ metaFile = NoFile
    /\ predictor = NoPredictor
    /\ last = NoCall
    /\ trainPc = "idle"
    /\ loading = NotLoading

\* df = self._validate_and_fix_columns(df) on the table read from the file:
\* before is the caller's table when the call starts, after is the same
\* table when the call has returned or raised
ReconcileCall ==
    /\ last = NoCall
    /\ last' = [op |-> "_validate_and_fix_columns", pass |-> 1,
                before |-> rawFile,
                after |-> ReconcileInPlace(rawFile),
                result |-> ValidateAndFixColumns(rawFile)]
    /\ UNCHANGED <<rawFile, featFile, modelFile, metaFile, predictor, trainPc, loading>>

\* the returned table is reconciled once more
ReconcileAgain ==
    /\ last.op = "_validate_and_fix_columns"
    /\ last.pass = 1
    /\ IsTable(last.result)
    /\ last' = [op |-> "_validate_and_fix_columns", pass |-> 2,
                before |-> last.result,
                after |-> ReconcileInPlace(last.result),
                result |-> ValidateAndFixColumns(last.result)]
    /\ UNCHANGED <<rawFile, featFile, modelFile, metaFile, predictor, trainPc, loading>>

\* engineer_features on the raw file: the feature table is written at
\* the end, when nothing was raised
EngineerRawFile ==
    /\ last = NoCall
    /\ featFile = NoFile
    /\ \E out \in {EngineerFeaturesCall(rawFile)} :
           /\ featFile' = IF out.kind = "saved" THEN [gen |-> 1, df |-> out.df] ELSE featFile
           /\ last' = [op |-> "engineer_features",
                       result |-> IF out.kind = "saved" THEN [kind |-> "saved"] ELSE out]
    /\ UNCHANGED <<rawFile, modelFile, metaFile, predictor, trainPc, loading>>

NextReconcile == ReconcileCall \/ ReconcileAgain \/ EngineerRawFile

SpecReconcile == InitReconcile /\ [][NextReconcile]_vars

(***************************************************************************)
(* Feature engineering alone: engineer_features on tables of one or two    *)
(* entities, with the table it computes before df.dropna() kept for        *)
(* inspection.                                                             *)
(***************************************************************************)
\* the constant series: its length and its value
ScenarioLen == 90

ScenarioValue == 100

ConstantTable ==
    [cols |-> RawCols,
     rows |-> Series(PinA, "Central Delhi", "Delhi", "Urban", ScenarioValue,
                     ScenarioLen, 1, FALSE)]

\* series lengths around the longest lag, and the longest ones
EngineerLens == { MinLen, MinLen + 1, MinLen + 2, MinLen + 3, MaxLen - 1, MaxLen }

\* the table with the cell of column c in its last row left empty
WithEmptyCell(raw, c) ==
    [raw EXCEPT !.rows = [i \in DOMAIN raw.rows |->
        IF i = Len(raw.rows) THEN [raw.rows[i] EXCEPT ![c] = NullCell] ELSE raw.rows[i]]]

EngineerTables ==
    { RawTable(len, shape, layout) :
        len \in EngineerLens, shape \in 1..(NumShapes + 1), layout \in Layouts }
    \cup { WithEmptyCell(RawTable(len, 1, "solo"), c) :
              len \in EngineerLens, c \in ObjectCols }
    \cup { ConstantTable }

InitEngineer ==
    /\ rawFile \in EngineerTables
    /\ featFile = NoFile
    /\ modelFile = NoFile
    /\ metaFile = NoFile
    /\ predictor = NoPredictor
    /\ last = NoCall
    /\ trainPc = "idle"
    /\ loading = NotLoading

\* engineer_features on the raw file: computed is df before df.dropna(),
\* removed is initial_count - len(df), and the table after dropna is saved
EngineerRun ==
    /\ featFile = NoFile
    /\ \E computed \in { ComputedFeatures(rawFile) } :
       \E kept \in { DropNa(computed) } :
           /\ featFile' = [gen |-> 1, df |-> kept]
           /\ last' = [op |-> "engineer_features",
                       computed |-> computed,
                       removed |-> Len(computed.rows) - Len(kept.rows)]
    /\ UNCHANGED <<rawFile, modelFile, metaFile, predictor, trainPc, loading>>

NextEngineer == EngineerRun

SpecEngineer == InitEngineer /\ [][NextEngineer]_vars

(***************************************************************************)
(* One PECPredictor, constructed from the artifacts of either training     *)
(* path, that answers any sequence of requests.                            *)
(***************************************************************************)
\* the tables the predictor is constructed from: series length of the
\* first entity, and layout
ServeTables == { <<31, "pair">>, <<40, "solo">>, <<45, "gap">> }

\* what the regressor answers to the n calls of one request
ServeAnswers(n) == { [i \in 1..n |-> Q(5, 2)], [i \in 1..n |-> I(100 - i)] }

\* the artifacts a training run leaves, and the predictor constructed from
\* them: PECDemandModel.train_model saves the names of _prepare_data, the
\* dashboard's Train Model handler (which needs two rows to split) saves
\* its own feature_cols
InitServe ==
    /\ \E t \in ServeTables : rawFile = RawTable(t[1], 1, t[2])
    /\ featFile = [gen |-> 1, df |-> EngineerFeatures(rawFile)]
    /\ \E feature_names \in
           { PrepareData(featFile.df) }
           \cup (IF Len(featFile.df.rows) > 1
                 THEN { DashboardFeatureCols(featFile.df) } ELSE {}) :
           /\ modelFile = [gen |-> 1, feature_names |-> feature_names]
           /\ metaFile = [gen |-> 1, feature_names |-> feature_names]
    /\ predictor = NewPredictor(modelFile, metaFile, featFile)
    /\ last = NoCall
    /\ trainPc = "idle"
    /\ loading = NotLoading

\* predictor.predict_single_day(pincode, date_str): the method reads
\* historical_data, feature_names and pincode_info and assigns none of them
ServeSingle ==
    /\ predictor # NoPredictor
    /\ \E pincode \in {PinA, PinB, PinUnknown}, d \in TargetDates(predictor),
          y \in { Q(-3, 2), Q(5, 2) } :
           last' = PredictSingleDay(predictor, pincode, d, y)
    /\ UNCHANGED <<rawFile, featFile, modelFile, metaFile, predictor, trainPc, loading>>

\* predictor.predict_week(pincode, start_date_str)
ServeWeek ==
    /\ predictor # NoPredictor
    /\ \E s \in WeekStarts(predictor), ys \in ServeAnswers(7) :
           last' = [op |-> "predict_week", pincode |-> Str(PinA), start_date |-> s,
                    result |-> PredictWeek(predictor, PinA, s, ys)]
    /\ UNCHANGED <<rawFile, featFile, modelFile, metaFile, predictor, trainPc, loading>>

\* predictor.predict_month(pincode, year, month)
ServeMonth ==
    /\ predictor # NoPredictor
    /\ \E ys \in ServeAnswers(31) :
           last' = [op |-> "predict_month", pincode |-> Str(PinA),
                    year |-> 2025, month |-> 2,
                    result |-> PredictMonth(predictor, PinA, 2025, 2, ys)]
    /\ UNCHANGED <<rawFile, featFile, modelFile, metaFile, predictor, trainPc, loading>>

\* predictor.compare_pincodes(pincodes, date_str)
ServeCompare ==
    /\ predictor # NoPredictor
    /\ \E pincodes \in { <<PinA>>, <<PinA, PinUnknown>>, KnownPincodes(predictor) } :
       \E ys \in ServeAnswers(Len(pincodes)) :
       \E out \in ComparePincodes(predictor, pincodes, LastDate(predictor) + 1, ys) :
           last' = [op |-> "compare_pincodes",
                    pincodes |-> [i \in 1..Len(pincodes) |-> Str(pincodes[i])],
                    date |-> LastDate(predictor) + 1,
                    result |-> out]
    /\ UNCHANGED <<rawFile, featFile, modelFile, metaFile, predictor, trainPc, loading>>

NextServe == ServeSingle \/ ServeWeek \/ ServeMonth \/ ServeCompare

SpecServe == InitServe /\ [][NextServe]_vars

(***************************************************************************)
(* _build_features asked for dates over several years, for an entity of    *)
(* each center type.                                                       *)
(***************************************************************************)
\* the days from 2025-01-01 on that are asked for (four years, one of them
\* a leap year)
AgreeDays == 1461

\* the series length of the entity the predictor knows
AgreeLen == 31

\* an Urban, a Rural and a Semi-Urban entity of PECDataGenerator.pincodes
AgreeEntities == { GeneratorPincodes[1], GeneratorPincodes[9], GeneratorPincodes[10] }

InitAgree ==
    /\ \E g \in AgreeEntities :
           rawFile = [cols |-> RawCols,
                      rows |-> Series(g.pincode, g.district, g.state, g.type,
                                      g.base_footfall, AgreeLen, 1, FALSE)]
    /\ featFile = [gen |-> 1, df |-> EngineerFeatures(rawFile)]
    /\ modelFile = [gen |-> 1, feature_names |-> PrepareData(featFile.df)]
    /\ metaFile = [gen |-> 1, feature_names |-> PrepareData(featFile.df)]
    /\ predictor = NewPredictor(modelFile, metaFile, featFile)
    /\ last = NoCall
    /\ trainPc = "idle"
    /\ loading = NotLoading

\* self._build_features(pincode, target_date) for the entity of the table
BuildCall ==
    /\ predictor # NoPredictor
    /\ last = NoCall
    /\ \E d \in 0..(AgreeDays - 1) :
       \E pin \in { Str(rawFile.rows[1].pincode) } :
           last' = [op |-> "_build_features", pincode |-> pin, date |-> d,
                    features |-> BuildFeatures(predictor, pin, d)]
    /\ UNCHANGED <<rawFile, featFile, modelFile, metaFile, predictor, trainPc, loading>>

NextAgree == BuildCall

SpecAgree == InitAgree /\ [][NextAgree]_vars

(***************************************************************************)
(* Properties.                                                             *)
(***************************************************************************)
IsCall == last.op = "predict_single_day"

Known == last.pincode \in DOMAIN predictor.pincode_info

\* the rows the loaded table has for the entity and date of the last call
MaterializedRows ==
    SelectSeq(predictor.historical_data.rows,
              LAMBDA x : x.pincode = last.pincode /\ x.date = last.date)

Materialized == MaterializedRows # <<>>

\* the footfall of the last call's entity on the dates before the target
\* date, in the loaded table
HistoryBefore ==
    LET rows == predictor.historical_data.rows
        dates == { rows[i].date : i \in { j \in DOMAIN rows :
                      rows[j].pincode = last.pincode /\ rows[j].date < last.date } }
    IN  { <<rows[i].date, rows[i].footfall>> : i \in { j \in DOMAIN rows :
              rows[j].pincode = last.pincode /\ rows[j].date \in dates } }

RECURSIVE SumOfPairs(_)
SumOfPairs(S) ==
    IF S = {} THEN 0
    ELSE LET x == CHOOSE x \in S : TRUE IN x[2] + SumOfPairs(S \ {x})

BuiltFrame == IsCall /\ last.features.kind = "frame"

\* the row of table df for (pincode, date)
RowAt(df, pincode, date) ==
    df.rows[CHOOSE i \in DOMAIN df.rows :
                df.rows[i].pincode = pincode /\ df.rows[i].date = date]

\* the raw table with the footfall of one entity changed on one date, or
\* on that date and every later one
ChangeFootfall(raw, pincode, date, later) ==
    [raw EXCEPT !.rows =
        [i \in DOMAIN raw.rows |->
            IF /\ raw.rows[i].pincode = pincode
               /\ (raw.rows[i].date = date \/ (later /\ raw.rows[i].date > date))
            THEN [raw.rows[i] EXCEPT !.footfall = @ + 1]
            ELSE raw.rows[i]]]

LeakageCols == Range(LagCols) \cup {"lag_ratio_7_to_30"}

\* C1: every column written by _add_lag_features, and lag_ratio_7_to_30, in
\* a row (e, d) of the feature table is unchanged when the footfall of e on
\* date d, or on d and every later date, is changed.
C1_NoLeakage ==
    featFile # NoFile =>
        \A i \in DOMAIN featFile.df.rows, later \in BOOLEAN :
            LET x == featFile.df.rows[i]
                changed == ComputedFeatures(
                    ChangeFootfall(rawFile, ParseInt(x.pincode), x.date, later))
            IN  \A c \in LeakageCols : RowAt(changed, x.pincode, x.date)[c] = x[c]

\* C2: for an (entity, date) that has a row in the loaded feature table,
\* _build_features returns that row's values for exactly the columns of
\* feature_names.
C2_FastPathExact ==
    IsCall /\ Known /\ Materialized =>
        /\ last.features.kind = "frame"
        /\ last.features.cols = predictor.feature_names
        /\ DOMAIN last.features.row = Range(predictor.feature_names)
        /\ \A c \in Range(predictor.feature_names) :
               last.features.row[c] = MaterializedRows[1][c]

C2_Witness ==
    /\ IsCall /\ Known /\ Materialized
    /\ last.features.kind = "frame"
    /\ last.features.row["footfall_lag_30"] = MaterializedRows[1]["footfall_lag_30"]
    /\ last.called

HistoryCols ==
    { "footfall_lag_7", "footfall_lag_14", "footfall_lag_30",
      "footfall_rolling_mean_7", "footfall_rolling_mean_14",
      "footfall_rolling_mean_30", "footfall_rolling_std_7",
      "footfall_rolling_max_30", "footfall_rolling_min_30", "lag_ratio_7_to_30" }

\* the dates on which the raw table has an observation of the entity
RawDates(pincode) ==
    { rawFile.rows[i].date : i \in { j \in DOMAIN rawFile.rows :
          rawFile.rows[j].pincode = pincode } }

\* the raw series of the entity has no observation on date d, at least 31
\* before it, and none missing between its first date and d - 1
GapFreeBefore(pincode, d) ==
    LET dates == RawDates(pincode)
    IN  /\ d \notin dates
        /\ Cardinality({ t \in dates : t < d }) >= 31
        /\ \A t \in dates : \A u \in t..(d - 1) : u \in dates

\* the raw table with an observation of value v for (pincode, d) appended
WithObservation(pincode, d, v) ==
    LET like == rawFile.rows[CHOOSE i \in DOMAIN rawFile.rows :
                                 rawFile.rows[i].pincode = pincode]
    IN  [rawFile EXCEPT !.rows = Append(@, [like EXCEPT !.date = d, !.footfall = v])]

\* C3: for an entity whose raw series is gap-free through d - 1 with at
\* least 31 observations, and a date d without a materialized row, the
\* history features _build_features produces equal the ones
\* engineer_features attaches to row (e, d) once an observation for d is
\* appended to the raw series.
C3_TrainingInferenceAgreement ==
    BuiltFrame /\ GapFreeBefore(ParseInt(last.pincode), last.date) =>
        \A v \in {0, 250} :
            LET row == RowAt(ComputedFeatures(
                           WithObservation(ParseInt(last.pincode), last.date, v)),
                           last.pincode, last.date)
            IN  \A c \in HistoryCols : last.features.row[c] = row[c]

\* C4: the index _encode_categorical returns for a district or state of
\* the loaded feature table is the district_encoded / state_encoded stored
\* in the table's rows; a value the table does not hold maps to 0.
C4_EncodingStable ==
    predictor # NoPredictor /\ last = NoCall =>
        /\ \A i \in DOMAIN predictor.historical_data.rows :
               LET x == predictor.historical_data.rows[i]
               IN  /\ EncodeCategorical(predictor, x.district, "district") = x.district_encoded
                   /\ EncodeCategorical(predictor, x.state, "state") = x.state_encoded
        /\ EncodeCategorical(predictor, "Nowhere", "district") = 0
        /\ EncodeCategorical(predictor, "Nowhere", "state") = 0

\* C5: every field of the vector the general path returns for a known
\* entity is non-null, whatever the number of observations before the date.
C5_NoNullToRegressor ==
    BuiltFrame /\ ~Materialized =>
        \A c \in Range(last.features.cols) \cap FloatCols : ~IsNull(last.features.row[c])

\* C6: a constructed PECPredictor never holds artifacts of different
\* retraining runs.
C6_AtomicSwap ==
    predictor # NoPredictor =>
        /\ predictor.gens.model = predictor.gens.metadata
        /\ predictor.gens.metadata = predictor.gens.data

\* C7: when the entity has no observation before the target date and the
\* date is not materialized, the history features are the fixed defaults
\* and a feature vector is returned (and a prediction made).
C7_ColdStartDefaults ==
    IsCall /\ Known /\ ~Materialized /\ HistoryBefore = {} =>
        /\ last.features.kind = "frame"
        /\ last.features.row["footfall_lag_7"] = I(100)
        /\ last.features.row["footfall_lag_14"] = I(100)
        /\ last.features.row["footfall_lag_30"] = I(100)
        /\ last.features.row["footfall_rolling_mean_7"] = I(100)
        /\ last.features.row["footfall_rolling_mean_14"] = I(100)
        /\ last.features.row["footfall_rolling_mean_30"] = I(100)
        /\ last.features.row["footfall_rolling_std_7"] = I(10)
        /\ last.features.row["footfall_rolling_max_30"] = I(150)
        /\ last.features.row["footfall_rolling_min_30"] = I(50)
        /\ last.result.kind = "int"

C7_Witness ==
    /\ IsCall /\ Known /\ ~Materialized /\ HistoryBefore = {}
    /\ last.features.kind = "frame"
    /\ last.features.row["footfall_rolling_std_7"] = I(10)
    /\ last.result.kind = "int"

LagCol(k) ==
    CASE k = 7 -> "footfall_lag_7" [] k = 14 -> "footfall_lag_14" [] k = 30 -> "footfall_lag_30"

\* C8: for k in {7, 14, 30}, when the entity has between 1 and k - 1
\* observations before the target date, footfall_lag_k is the arithmetic
\* mean of all of them.
C8_ShortHistoryMean ==
    BuiltFrame /\ ~Materialized =>
        \A k \in {7, 14, 30} :
            Cardinality(HistoryBefore) \in 1..(k - 1) =>
                last.features.row[LagCol(k)] =
                    Q(SumOfPairs(HistoryBefore), Cardinality(HistoryBefore))

\* exactly 5 earlier days that are not all equal: lag_7 is their mean
C8_Witness ==
    /\ BuiltFrame /\ ~Materialized
    /\ Cardinality(HistoryBefore) = 5
    /\ last.features.row["footfall_lag_7"] =
           Q(SumOfPairs(HistoryBefore), Cardinality(HistoryBefore))
    /\ \E h \in HistoryBefore : I(h[2]) # last.features.row["footfall_lag_7"]

\* the keys of the features dict of the general path
GeneralPathKeys ==
    { "day_of_week", "is_weekend", "is_monday", "month", "quarter", "week_of_month",
      "day_of_month", "is_first_week", "day_of_year", "is_holiday",
      "is_day_after_holiday", "is_enrollment_season", "is_pension_month",
      "is_festival_season", "center_type_encoded", "is_urban", "is_rural",
      "state_encoded", "district_encoded", "footfall_lag_7", "footfall_lag_14",
      "footfall_lag_30", "footfall_rolling_mean_7", "footfall_rolling_mean_14",
      "footfall_rolling_mean_30", "footfall_rolling_std_7", "footfall_rolling_max_30",
      "footfall_rolling_min_30", "rural_pension_interaction",
      "urban_enrollment_interaction", "monday_first_week", "weekend_holiday",
      "lag_ratio_7_to_30", "pincode_category" }

\* C9: every vector _build_features returns has exactly the columns of
\* feature_names, in that order; on the general path every name the path
\* did not compute has value 0.
C9_OutputShape ==
    BuiltFrame =>
        /\ last.features.cols = predictor.feature_names
        /\ DOMAIN last.features.row = Range(predictor.feature_names)
        /\ ~Materialized =>
               \A c \in Range(predictor.feature_names) \ GeneralPathKeys :
                   IF c \in FloatCols THEN last.features.row[c] = I(0)
                   ELSE last.features.row[c] = 0

C9_Witness ==
    /\ BuiltFrame /\ ~Materialized
    /\ "footfall_change_7d" \in Range(predictor.feature_names)
    /\ last.features.cols = predictor.feature_names
    /\ last.features.row["footfall_change_7d"] = I(0)

\* C10: predict_single_day with an entity id that is not in pincode_info
\* returns None without building features and without calling the
\* regressor.
C10_UnknownEntityNotFound ==
    IsCall /\ ~Known =>
        /\ last.result = None
        /\ ~last.built
        /\ ~last.called

C10_Witness ==
    /\ IsCall /\ ~Known
    /\ last.result = None
    /\ last.pincode = Str(PinUnknown)

IsBatch == last.op \in {"predict_week", "predict_month", "compare_pincodes"}

\* C11: a batch request returns normally whatever the entity ids (known,
\* unknown, none at all), and a comparison has a row for each known entity
\* of its list.
C11_BatchNeverAborted ==
    IsBatch =>
        /\ last.result.kind = "DataFrame"
        /\ last.op = "compare_pincodes" =>
               \A i \in DOMAIN last.pincodes :
                   last.pincodes[i] \in DOMAIN predictor.pincode_info =>
                       \E r \in DOMAIN last.result.rows :
                           last.result.rows[r].pincode = last.pincodes[i]

\* the list of a comparison holds known entities only, each once, and at
\* least one
DistinctKnownList ==
    /\ last.op = "compare_pincodes"
    /\ last.pincodes # <<>>
    /\ \A i \in DOMAIN last.pincodes : last.pincodes[i] \in DOMAIN predictor.pincode_info
    /\ \A i, j \in DOMAIN last.pincodes : last.pincodes[i] = last.pincodes[j] => i = j

\* the position of an entity in the list of the comparison
ListedAt(pincode) == CHOOSE i \in DOMAIN last.pincodes : last.pincodes[i] = pincode

\* C12: a comparison of N distinct known entities returns N rows, one for
\* each entity, in non-increasing order of predicted_footfall, entities
\* with equal predicted_footfall in the order of the list.
C12_CompareOrdering ==
    DistinctKnownList =>
        /\ last.result.kind = "DataFrame"
        /\ Len(last.result.rows) = Len(last.pincodes)
        /\ \A i \in DOMAIN last.pincodes : \E r \in DOMAIN last.result.rows :
               last.result.rows[r].pincode = last.pincodes[i]
        /\ \A a, b \in DOMAIN last.result.rows :
               a < b =>
                   /\ last.result.rows[a].predicted_footfall
                          >= last.result.rows[b].predicted_footfall
                   /\ last.result.rows[a].predicted_footfall
                          = last.result.rows[b].predicted_footfall =>
                          ListedAt(last.result.rows[a].pincode)
                              < ListedAt(last.result.rows[b].pincode)

WeekOfKnown ==
    /\ last.op = "predict_week"
    /\ last.pincode \in DOMAIN predictor.pincode_info

\* C13: a week for a known entity from start date s has exactly 7 rows;
\* row i carries the date s + i days and that date's weekday; from a
\* Monday the weekdays run Monday .. Sunday.
C13_WeekRows ==
    WeekOfKnown =>
        /\ last.result.kind = "DataFrame"
        /\ Len(last.result.rows) = 7
        /\ \A i \in 0..6 :
               /\ last.result.rows[i + 1].date = StrfTime(last.start_date + i)
               /\ last.result.rows[i + 1].day_name
                      = DayNames[((last.start_date + i + 2) % 7) + 1]
        /\ (last.start_date + 2) % 7 = 0 =>
               [i \in 1..7 |-> last.result.rows[i].day_name] = DayNames

\* a week asked from a Monday
C13_Witness ==
    /\ WeekOfKnown
    /\ (last.start_date + 2) % 7 = 0
    /\ Len(last.result.rows) = 7
    /\ last.result.rows[1].day_name = "Monday"
    /\ last.result.rows[7].day_name = "Sunday"
    /\ last.result.rows[1].date = StrfTime(last.start_date)

\* n is the integer nearest to the number y
NearestInteger(n, y) == 2 * Abs(n * y.d - y.n) <= Abs(y.d)

\* C14: what predict_single_day returns for a known entity is an integer
\* >= 0, namely the regressor's answer rounded to the nearest integer, or 0
\* when that is negative; the rows of a week, a month and a comparison
\* carry such values only.
C14_NonNegativeInteger ==
    /\ IsCall /\ last.called =>
           /\ last.result.kind = "int"
           /\ last.result.value \in Nat
           /\ \E n \in ((last.prediction.n \div last.prediction.d) - 1)
                           ..((last.prediction.n \div last.prediction.d) + 1) :
                  /\ NearestInteger(n, last.prediction)
                  /\ last.result.value = IF n < 0 THEN 0 ELSE n
    /\ IsBatch /\ last.result.kind = "DataFrame" =>
           \A r \in DOMAIN last.result.rows :
               last.result.rows[r].predicted_footfall \in Nat

\* a negative answer of the regressor comes out as 0
C14_Witness ==
    /\ IsCall /\ last.called
    /\ last.prediction = Q(-3, 2)
    /\ last.result.value = 0

IsReconcile == last.op = "_validate_and_fix_columns"

\* C15: reconciling the table that a successful reconciliation returned
\* succeeds and returns a table with the same columns and the same values in
\* every row.
C15_Idempotent ==
    IsReconcile /\ last.pass = 2 =>
        /\ IsTable(last.result)
        /\ last.result.cols = last.before.cols
        /\ last.result.rows = last.before.rows

\* a second pass over a table whose first pass renamed or added a column and
\* rewrote a center_type
C15_Witness ==
    /\ IsReconcile /\ last.pass = 2
    /\ last.result = last.before
    /\ Range(last.before.cols) # Range(rawFile.cols)
    /\ \E i \in DOMAIN rawFile.rows :
           /\ "center_type" \in DOMAIN rawFile.rows[i]
           /\ rawFile.rows[i].center_type # last.before.rows[i].center_type

\* C16: when the reconciliation has returned or raised, the table the caller
\* passed has the column names and the values it had before the call.
C16_NoSideEffect ==
    IsReconcile =>
        /\ last.after.cols = last.before.cols
        /\ \A i \in DOMAIN last.before.rows :
               \A c \in Range(last.before.cols) :
                   ToString(last.after.rows[i][c]) = ToString(last.before.rows[i][c])

\* the names the lookup table renames to the required column c
SynonymsOf(c) ==
    { ColumnMapping[k][1] : k \in { j \in DOMAIN ColumnMapping : ColumnMapping[j][2] = c } }
        \ {c}

\* the table has the required column c under its name or under a synonym
HasColumn(t, c) == c \in Range(t.cols) \/ SynonymsOf(c) \cap Range(t.cols) # {}

\* the table has a synonym of c and lacks c itself
HasOnlySynonym(t, c) == c \notin Range(t.cols) /\ SynonymsOf(c) \cap Range(t.cols) # {}

IsEngineer == last.op = "engineer_features"

NoDuplicates(cols) == \A i, j \in DOMAIN cols : cols[i] = cols[j] => i = j

\* C17: a raw table that has a synonym of a required column and lacks the
\* column itself (date, pincode and footfall being there under some name)
\* is accepted by engineer_features; the feature table has every required
\* column once, the values under footfall, district and state are values of
\* the synonym column, and the lookup table gives each synonym one name.
C17_SynonymRenaming ==
    /\ \A j, k \in DOMAIN ColumnMapping :
           ColumnMapping[j][1] = ColumnMapping[k][1] => ColumnMapping[j][2] = ColumnMapping[k][2]
    /\ /\ IsEngineer
       /\ \A c \in {"date", "pincode", "footfall"} : HasColumn(rawFile, c)
       /\ \E c \in Range(RequiredCols) : HasOnlySynonym(rawFile, c)
       => /\ last.result.kind = "saved"
          /\ Range(RequiredCols) \subseteq Range(featFile.df.cols)
          /\ NoDuplicates(featFile.df.cols)
          /\ \A c \in {"footfall", "district", "state"} :
                 HasOnlySynonym(rawFile, c) =>
                     \A r \in DOMAIN featFile.df.rows :
                         \E i \in DOMAIN rawFile.rows :
                             \E syn \in SynonymsOf(c) \cap Range(rawFile.cols) :
                                 featFile.df.rows[r][c] = rawFile.rows[i][syn]

\* the columns among date, pincode and footfall that the table has neither
\* under their name nor under a synonym: no fallback step supplies them
StillAbsent(t) == { c \in {"date", "pincode", "footfall"} : ~HasColumn(t, c) }

\* C18: when date, pincode or footfall is still absent after renaming,
\* inference and defaulting, the reconciliation raises the error that names
\* exactly the absent columns, and engineer_features leaves no feature
\* table; when none is absent the reconciliation returns the table, and
\* engineer_features raises that error in no other case.
C18_SchemaError ==
    /\ IsReconcile =>
           IF StillAbsent(last.before) # {}
           THEN /\ ~IsTable(last.result)
                /\ last.result.kind = "ValueError"
                /\ Range(last.result.missing) = StillAbsent(last.before)
           ELSE /\ IsTable(last.result)
                /\ Range(RequiredCols) \subseteq Range(last.result.cols)
    /\ IsEngineer =>
           /\ StillAbsent(rawFile) # {} => last.result.kind # "saved" /\ featFile = NoFile
           /\ last.result.kind = "ValueError" =>
                  Range(last.result.missing) = StillAbsent(rawFile)
                     /\ StillAbsent(rawFile) # {}

\* a table with PIN for pincode and without footfall: the error names footfall
C18_Witness ==
    /\ IsReconcile
    /\ "PIN" \in Range(last.before.cols)
    /\ StillAbsent(last.before) = {"footfall"}
    /\ last.result = ValueError(<<"footfall">>)

\* the width of a pincode written with its leading zeros
PincodeWidth == 6

\* C19: in the table the reconciliation returns every pincode is a string
\* of the one fixed width, with zeros on the left where the number is
\* shorter (11001 is '011001').
C19_FixedWidthPincode ==
    IsReconcile /\ IsTable(last.result) =>
        \A i \in DOMAIN last.result.rows :
            /\ Head(ToString(last.result.rows[i].pincode)) = "<"
            /\ Len(last.result.rows[i].pincode) = PincodeWidth

\* the name a value is a case or hyphenation variant of, "none" when it is
\* a variant of none of the three names
VariantOf(v) ==
    CASE v \in {"Urban", "urban", "URBAN"} -> "Urban"
      [] v \in {"Rural", "rural", "RURAL"} -> "Rural"
      [] v \in {"Semi-Urban", "semi-urban", "SEMI-URBAN", "Semi-urban", "semi-Urban",
                "Semi Urban", "semi urban", "SEMI URBAN", "Semi urban",
                "SemiUrban", "semiurban", "SEMIURBAN", "Semiurban"} -> "Semi-Urban"
      [] OTHER -> "none"

\* C20: in the table the reconciliation returns every center_type is Urban,
\* Rural or Semi-Urban, and a value that was a case or hyphenation variant
\* of one of these names has become that name.
C20_CenterTypeCanonical ==
    IsReconcile /\ IsTable(last.result) =>
        \A i \in DOMAIN last.result.rows :
            /\ last.result.rows[i].center_type \in ValidTypes
            /\ "center_type" \in Range(last.before.cols)
                  /\ VariantOf(last.before.rows[i].center_type) # "none"
               => last.result.rows[i].center_type = VariantOf(last.before.rows[i].center_type)

\* engineer_features has run in the engineering specification
Engineered == last.op = "engineer_features" /\ "computed" \in DOMAIN last

\* C21: for the single entity with ScenarioLen consecutive daily
\* observations all equal to ScenarioValue (90 days of 100), the persisted
\* feature table holds exactly the rows of days 31..ScenarioLen, each with
\* the three lags and the three rolling means equal to the value, rolling
\* std 0 and lag_ratio_7_to_30 = value / (value + 1).
C21_ConstantSeries ==
    Engineered /\ rawFile = ConstantTable =>
        /\ Len(featFile.df.rows) = ScenarioLen - 30
        /\ \A j \in DOMAIN featFile.df.rows :
               LET x == featFile.df.rows[j]
               IN  /\ x.date = StartDay + 30 + (j - 1)
                   /\ x.footfall_lag_7 = I(ScenarioValue)
                   /\ x.footfall_lag_14 = I(ScenarioValue)
                   /\ x.footfall_lag_30 = I(ScenarioValue)
                   /\ x.footfall_rolling_mean_7 = I(ScenarioValue)
                   /\ x.footfall_rolling_mean_14 = I(ScenarioValue)
                   /\ x.footfall_rolling_mean_30 = I(ScenarioValue)
                   /\ x.footfall_rolling_std_7 = I(0)
                   /\ x.lag_ratio_7_to_30 = Q(ScenarioValue, ScenarioValue + 1)

\* the constant series engineered: day 31 is the first row kept
C21_Witness ==
    /\ Engineered /\ rawFile = ConstantTable
    /\ Len(featFile.df.rows) > 0
    /\ featFile.df.rows[1].date = StartDay + 30
    /\ featFile.df.rows[1].footfall_lag_30 = I(ScenarioValue)
    /\ featFile.df.rows[Len(featFile.df.rows)].date = StartDay + ScenarioLen - 1

\* C23: on the general path is_holiday is 1 exactly when the target date is
\* in the holiday calendar, is_day_after_holiday is 1 exactly when the day
\* before it is, and weekend_holiday = is_weekend * is_holiday.
C23_HolidayAtInference ==
    BuiltFrame /\ ~Materialized =>
        /\ last.features.row.is_holiday = IsHoliday(last.date)
        /\ last.features.row.is_day_after_holiday = IsHoliday(last.date - 1)
        /\ last.features.row.weekend_holiday =
               last.features.row.is_weekend * last.features.row.is_holiday

\* the columns that depend on the date and the center type only
AgreedCols ==
    { "day_of_week", "is_weekend", "is_monday", "month", "quarter", "week_of_month",
      "day_of_month", "is_first_week", "day_of_year", "is_enrollment_season",
      "is_pension_month", "is_festival_season", "center_type_encoded", "is_urban",
      "is_rural", "rural_pension_interaction", "urban_enrollment_interaction",
      "monday_first_week" }

\* what _add_temporal_features, _add_geographic_features and
\* _add_interaction_features compute for a row of the raw table's entity
\* with the given date
EngineeredRow(date) ==
    ComputedFeatures([cols |-> RawCols,
                      rows |-> << [rawFile.rows[1] EXCEPT !.date = date] >>]).rows[1]

\* C24: for every date and each of the three center types, the values
\* _build_features computes for the date-only and geographic columns equal
\* those the three _add_..._features methods compute for a row with that
\* date and center type.
C24_PathsAgree ==
    last.op = "_build_features" /\ last.features.kind = "frame" =>
        /\ AgreedCols \subseteq DOMAIN last.features.row
        /\ \A c \in AgreedCols : last.features.row[c] = EngineeredRow(last.date)[c]

\* a Monday in the first week of a November, asked for the Rural entity on
\* the general path
C24_Witness ==
    /\ last.op = "_build_features" /\ last.features.kind = "frame"
    /\ ~TakesFastPath(predictor, last.pincode, last.date)
    /\ last.features.row.rural_pension_interaction = 1
    /\ last.features.row.monday_first_week = 1
    /\ last.features.row.center_type_encoded = 0

\* C25: after either training path, feature_names holds neither footfall
\* nor a column whose value in a row (e, d) of the feature table changes
\* when the footfall of e on date d is changed.
C25_TargetExcluded ==
    modelFile # NoFile /\ modelFile.gen = featFile.gen /\ trainPc # "engineer" =>
        /\ "footfall" \notin Range(modelFile.feature_names)
        /\ \A i \in DOMAIN featFile.df.rows :
               LET x == featFile.df.rows[i]
                   changed == ComputedFeatures(
                       ChangeFootfall(rawFile, ParseInt(x.pincode), x.date, FALSE))
               IN  \A c \in Range(modelFile.feature_names) :
                       RowAt(changed, x.pincode, x.date)[c] = x[c]

\* how many observations of its entity lie before row r of the table
EarlierObservations(df, r) ==
    Cardinality({ j \in DOMAIN df.rows :
                    /\ df.rows[j].pincode = df.rows[r].pincode
                    /\ df.rows[j].date < df.rows[r].date })

RollingDefinedCols ==
    { "footfall_rolling_mean_7", "footfall_rolling_mean_14", "footfall_rolling_mean_30",
      "footfall_rolling_max_30", "footfall_rolling_min_30" }

\* C26 as stated: in the table before dropping, footfall_lag_k is null
\* exactly in the rows whose entity has fewer than k + 1 earlier
\* observations, and every rolling mean, max and min is defined in a row
\* whose entity has at least one earlier observation.
C26_LagDefinedness ==
    Engineered =>
        \A r \in DOMAIN last.computed.rows :
            /\ \A k \in {7, 14, 30} :
                   IsNull(last.computed.rows[r][LagCol(k)])
                       <=> EarlierObservations(last.computed, r) < k + 1
            /\ EarlierObservations(last.computed, r) >= 1 =>
                   \A c \in RollingDefinedCols : ~IsNull(last.computed.rows[r][c])

\* C26 amended: footfall_lag_k is null exactly in the rows whose entity has
\* fewer than k earlier observations; the rolling part as stated.
C26_LagDefinednessAmended ==
    Engineered =>
        \A r \in DOMAIN last.computed.rows :
            /\ \A k \in {7, 14, 30} :
                   IsNull(last.computed.rows[r][LagCol(k)])
                       <=> EarlierObservations(last.computed, r) < k
            /\ EarlierObservations(last.computed, r) >= 1 =>
                   \A c \in RollingDefinedCols : ~IsNull(last.computed.rows[r][c])

\* a row with exactly 30 earlier observations has its lag 30, the row before
\* it has none, and the entity's second row has its rolling mean
C26_Witness ==
    /\ Engineered
    /\ \E r \in DOMAIN last.computed.rows :
           /\ EarlierObservations(last.computed, r) = 30
           /\ ~IsNull(last.computed.rows[r].footfall_lag_30)
           /\ IsNull(last.computed.rows[r - 1].footfall_lag_30)
    /\ \E r \in DOMAIN last.computed.rows :
           /\ EarlierObservations(last.computed, r) = 1
           /\ ~IsNull(last.computed.rows[r].footfall_rolling_mean_30)
           /\ IsNull(last.computed.rows[r].footfall_lag_7)

\* the raw table with the observations of every entity but e removed
OnlyEntity(raw, e) == [raw EXCEPT !.rows = SelectSeq(@, LAMBDA x : x.pincode = e)]

\* C27: every lag and rolling value in a row of entity e of the table
\* engineer_features computes, rows dropped later included, is the value
\* computed from the observations of e alone: it stays the same when the
\* observations of the other entities are removed.
C27_PerEntity ==
    Engineered =>
        \A e \in Range(Column(rawFile.rows, "pincode")) :
            LET alone == ComputedFeatures(OnlyEntity(rawFile, e))
            IN  \A j \in DOMAIN alone.rows :
                    \A c \in LeakageCols :
                        RowAt(last.computed, alone.rows[j].pincode, alone.rows[j].date)[c]
                            = alone.rows[j][c]

GapFree(dates) == \A d \in dates : d = StartDay \/ d - 1 \in dates

\* C28: the persisted table is exactly the computed rows whose lag and
\* rolling features are all non-null, the removed count is rows before
\* minus rows kept, and an entity with n gap-free, fully populated
\* observations keeps all but its first 30 dates (none when n <= 30).
C28_RowDropping ==
    Engineered =>
        /\ featFile.df.rows =
               SelectSeq(last.computed.rows,
                         LAMBDA x : \A c \in LeakageCols : ~IsNull(x[c]))
        /\ last.removed = Len(last.computed.rows) - Len(featFile.df.rows)
        /\ \A e \in Range(Column(last.computed.rows, "pincode")) :
               LET obs == RowsOf(last.computed, e)
                   dates == Range(Column(obs, "date"))
                   kept == Range(Column(RowsOf(featFile.df, e), "date"))
               IN  /\ GapFree(dates)
                   /\ \A i \in DOMAIN obs : \A c \in ObjectCols : obs[i][c] # NullCell
                   => /\ kept = { d \in dates : d >= StartDay + 30 }
                      /\ Len(RowsOf(featFile.df, e)) =
                             IF Len(obs) <= 30 THEN 0 ELSE Len(obs) - 30

\* C29: in the table engineer_features computes, the first row of every
\* entity has is_day_after_holiday = 0 and every other row (e, d) has the
\* is_holiday value of the calendar day d - 1, also when the series of e
\* has date gaps.
C29_DayAfterHoliday ==
    Engineered =>
        \A r \in DOMAIN last.computed.rows :
            last.computed.rows[r].is_day_after_holiday =
                IF EarlierObservations(last.computed, r) = 0 THEN 0
                ELSE IsHoliday(last.computed.rows[r].date - 1)

(***************************************************************************)
(* The data sources.  load_uidai_data turns a raw UIDAI table into the     *)
(* six-column table of the pipeline; PECDataGenerator writes a synthetic   *)
(* one.  A text cell of a raw UIDAI table is the sequence of its           *)
(* characters, a date cell of it a timestamp (day number and minute of the *)
(* day).                                                                   *)
(***************************************************************************)
Lowers == << "a", "b", "c", "d", "e", "f", "g", "h", "i", "j", "k", "l", "m",
             "n", "o", "p", "q", "r", "s", "t", "u", "v", "w", "x", "y", "z" >>

Uppers == << "A", "B", "C", "D", "E", "F", "G", "H", "I", "J", "K", "L", "M",
             "N", "O", "P", "Q", "R", "S", "T", "U", "V", "W", "X", "Y", "Z" >>

\* the characters of the text cells, in the order of their code points
CodePoints == << " ", "-" >> \o Uppers \o << "_" >> \o Lowers

IsCased(c) == c \in Range(Lowers) \cup Range(Uppers)

CharUpper(c) == IF c \in Range(Lowers) THEN Uppers[IndexOf(Lowers, c) + 1] ELSE c

CharLower(c) == IF c \in Range(Uppers) THEN Lowers[IndexOf(Uppers, c) + 1] ELSE c

\* str.upper()
StrUpper(s) == [i \in DOMAIN s |-> CharUpper(s[i])]

\* str.strip(): the whitespace at both ends is removed
RECURSIVE StrStrip(_)
StrStrip(s) ==
    IF s = <<>> THEN s
    ELSE IF s[1] = " " THEN StrStrip(Tail(s))
    ELSE IF s[Len(s)] = " " THEN StrStrip(SubSeq(s, 1, Len(s) - 1))
    ELSE s

\* str.title(): a letter after a letter is lowered, any other letter raised
StrTitle(s) ==
    [i \in DOMAIN s |->
        IF i > 1 /\ IsCased(s[i - 1]) THEN CharLower(s[i]) ELSE CharUpper(s[i])]

\* str comparison of two text cells, by code point
RECURSIVE TextLess(_, _)
TextLess(a, b) ==
    IF b = <<>> THEN FALSE
    ELSE IF a = <<>> THEN TRUE
    ELSE IF a[1] # b[1] THEN IndexOf(CodePoints, a[1]) < IndexOf(CodePoints, b[1])
    ELSE TextLess(Tail(a), Tail(b))

\* load_uidai_data's column_mapping, in the order of the dict
UidaiColumnMapping ==
    << <<"visit_date", "date">>, <<"center_pincode", "pincode">>,
       <<"center_district", "district">>, <<"center_state", "state">>,
       <<"center_category", "center_type">>, <<"total_enrollments", "footfall">> >>

\* df.rename(columns=column_mapping), from the k-th item on
RECURSIVE UidaiRenamed(_, _)
UidaiRenamed(df, k) ==
    IF k > Len(UidaiColumnMapping) THEN df
    ELSE UidaiRenamed(IF UidaiColumnMapping[k][1] \in Range(df.cols)
                      THEN RenameColumn(df, UidaiColumnMapping[k][1], UidaiColumnMapping[k][2])
                      ELSE df, k + 1)

\* str.zfill(6): zeros in front of a string shorter than the width
RECURSIVE ZFill(_, _)
ZFill(s, width) == IF Len(s) >= width THEN s ELSE ZFill(<<0>> \o s, width)

\* load_uidai_data's center_type_mapping; a label that is no key maps to null
UidaiCenterTypeMapping(v) ==
    CASE v = <<"U", "R", "B", "A", "N">> -> "Urban"
      [] v = <<"R", "U", "R", "A", "L">> -> "Rural"
      [] v = <<"S", "E", "M", "I", "_", "U", "R", "B", "A", "N">> -> "Semi-Urban"
      [] v = <<"S", "E", "M", "I", "-", "U", "R", "B", "A", "N">> -> "Semi-Urban"
      [] v = <<"U">> -> "Urban"
      [] v = <<"R">> -> "Rural"
      [] v = <<"S", "U">> -> "Semi-Urban"
      [] OTHER -> NullCell

\* fillna(value) of a text cell
FillNa(v, value) == IF v = NullCell THEN value ELSE v

\* transformations 1 to 4 of load_uidai_data on one row
UidaiTransformed(row) ==
    [date |-> StrfTime(row.date.day),
     pincode |-> ZFill(AsTypeStr(row.pincode), PincodeWidth),
     center_type |-> FillNa(UidaiCenterTypeMapping(StrUpper(row.center_type)), "Urban"),
     district |-> StrTitle(StrStrip(row.district)),
     state |-> StrTitle(StrStrip(row.state)),
     footfall |-> row.footfall]

GroupKeys == <<"date", "pincode", "district", "state", "center_type">>

\* the key of a row in groupby(['date', 'pincode', 'district', 'state',
\* 'center_type'])
GroupKey(row) == [c \in Range(GroupKeys) |-> row[c]]

\* the days the ISO dates of a table stand for: two ISO dates compare as
\* their days do
DayOfDate(date) == CHOOSE t \in 0..(2 * 366) : StrfTime(t) = date

CenterTypesSorted == <<"Rural", "Semi-Urban", "Urban">>

\* the order groupby sorts its keys in: by the key columns from left to right
KeyLess(a, b) ==
    IF a.date # b.date THEN DayOfDate(a.date) < DayOfDate(b.date)
    ELSE IF a.pincode # b.pincode THEN StrLess(a.pincode, b.pincode)
    ELSE IF a.district # b.district THEN TextLess(a.district, b.district)
    ELSE IF a.state # b.state THEN TextLess(a.state, b.state)
    ELSE IndexOf(CenterTypesSorted, a.center_type) < IndexOf(CenterTypesSorted, b.center_type)

RECURSIVE SumFootfall(_, _)
SumFootfall(rows, key) ==
    IF rows = <<>> THEN 0
    ELSE (IF GroupKey(rows[1]) = key THEN rows[1].footfall ELSE 0)
         + SumFootfall(Tail(rows), key)

\* groupby(keys, as_index=False).agg({'footfall': 'sum'}): one row per
\* distinct key, the keys in sorted order
GroupBySum(rows) ==
    LET keys == { GroupKey(rows[i]) : i \in DOMAIN rows }
    IN  [k \in 1..Cardinality(keys) |->
            LET key == CHOOSE a \in keys :
                           Cardinality({ b \in keys : KeyLess(b, a) }) = k - 1
            IN  key @@ ("footfall" :> SumFootfall(rows, key))]

UidaiOutCols == <<"date", "pincode", "district", "state", "center_type", "footfall">>

\* load_uidai_data: the DataFrame returned, which is also the file written
LoadUidaiData(df) ==
    CHOOSE out \in
      { [cols |-> UidaiOutCols, rows |-> GroupBySum(rows)] :
        rows \in { Seq1([i \in DOMAIN df.rows |->
                       UidaiTransformed(UidaiRenamed(df, 1).rows[i])]) } } : TRUE

(***************************************************************************)
(* PECDataGenerator._calculate_footfall computes in Python floats: IEEE    *)
(* doubles, every product and sum rounded to the nearest double, a tie to  *)
(* the even one.  A double is s * m * 2^e with s the sign, m a natural     *)
(* number of at most 53 bits and e an integer.  m is too                   *)
(* long for one machine word: a long natural number is the sequence of its *)
(* digits to the base 2^LimbBits, least significant first, without leading *)
(* zeros.                                                                  *)
(***************************************************************************)
LimbBits == 14

Limb == 2^LimbBits

RECURSIVE BigOf(_)
BigOf(n) == IF n = 0 THEN <<>> ELSE <<n % Limb>> \o BigOf(n \div Limb)

RECURSIVE BigToInt(_)
BigToInt(a) == IF a = <<>> THEN 0 ELSE a[1] + Limb * BigToInt(Tail(a))

RECURSIVE BigStrip(_)
BigStrip(a) ==
    IF a # <<>> /\ a[Len(a)] = 0 THEN BigStrip(SubSeq(a, 1, Len(a) - 1)) ELSE a

\* a * m + carry, for 0 <= m < Limb
RECURSIVE BigMulCarry(_, _, _)
BigMulCarry(a, m, carry) ==
    IF a = <<>> THEN BigOf(carry)
    ELSE <<(a[1] * m + carry) % Limb>>
         \o BigMulCarry(Tail(a), m, (a[1] * m + carry) \div Limb)

BigMulSmall(a, m) == IF m = 0 THEN <<>> ELSE BigMulCarry(a, m, 0)

RECURSIVE BigLess(_, _)
BigLess(a, b) ==
    IF Len(a) # Len(b) THEN Len(a) < Len(b)
    ELSE IF a = <<>> THEN FALSE
    ELSE IF a[Len(a)] # b[Len(b)] THEN a[Len(a)] < b[Len(b)]
    ELSE BigLess(SubSeq(a, 1, Len(a) - 1), SubSeq(b, 1, Len(b) - 1))

RECURSIVE BigAddCarry(_, _, _)
BigAddCarry(a, b, carry) ==
    IF a = <<>> /\ b = <<>> THEN BigOf(carry)
    ELSE LET x == IF a = <<>> THEN 0 ELSE a[1]
             y == IF b = <<>> THEN 0 ELSE b[1]
         IN  <<(x + y + carry) % Limb>>
             \o BigAddCarry(IF a = <<>> THEN a ELSE Tail(a),
                            IF b = <<>> THEN b ELSE Tail(b), (x + y + carry) \div Limb)

BigAdd(a, b) == BigAddCarry(a, b, 0)

\* a - b - borrow digit by digit, for a >= b
RECURSIVE BigSubBorrow(_, _, _)
BigSubBorrow(a, b, borrow) ==
    IF a = <<>> THEN <<>>
    ELSE LET y == (IF b = <<>> THEN 0 ELSE b[1]) + borrow
         IN  <<(a[1] - y) % Limb>>
             \o BigSubBorrow(Tail(a), IF b = <<>> THEN b ELSE Tail(b),
                             IF a[1] < y THEN 1 ELSE 0)

BigSub(a, b) == BigStrip(BigSubBorrow(a, b, 0))

RECURSIVE BigMulBig(_, _)
BigMulBig(a, b) ==
    IF a = <<>> \/ b = <<>> THEN <<>>
    ELSE BigAdd(BigMulSmall(a, b[1]),
                IF Len(b) = 1 THEN <<>> ELSE <<0>> \o BigMulBig(a, Tail(b)))

\* <<a \div d, a % d>> for a small d > 0
RECURSIVE BigDivRem(_, _)
BigDivRem(a, d) ==
    IF a = <<>> THEN << <<>>, 0 >>
    ELSE CHOOSE out \in
           { << BigStrip(<<(r[2] * Limb + a[1]) \div d>> \o r[1]),
                (r[2] * Limb + a[1]) % d >> :
             r \in { BigDivRem(Tail(a), d) } } : TRUE

RECURSIVE IntBitLen(_)
IntBitLen(n) == IF n = 0 THEN 0 ELSE 1 + IntBitLen(n \div 2)

BitLen(a) == IF a = <<>> THEN 0 ELSE LimbBits * (Len(a) - 1) + IntBitLen(a[Len(a)])

\* a * 2^n
ShiftLeft(a, n) ==
    IF a = <<>> THEN a
    ELSE [i \in 1..(n \div LimbBits) |-> 0] \o BigMulSmall(a, 2^(n % LimbBits))

\* a \div 2^n
ShiftRight(a, n) ==
    IF n \div LimbBits >= Len(a) THEN <<>>
    ELSE BigDivRem(SubSeq(a, (n \div LimbBits) + 1, Len(a)), 2^(n % LimbBits))[1]

IsOdd(a) == a # <<>> /\ a[1] % 2 = 1

Double(s, m, e) == IF m = <<>> THEN [s |-> 1, m |-> <<>>, e |-> 0] ELSE [s |-> s, m |-> m, e |-> e]

\* m / 2^r rounded to the nearest natural number, a tie to the even one
RoundShift(m, r) ==
    IF r <= 0 THEN ShiftLeft(m, 0 - r)
    ELSE CHOOSE out \in
           { IF IsOdd(q1) /\ (m # ShiftLeft(q1, r - 1) \/ IsOdd(ShiftRight(q1, 1)))
             THEN BigAdd(ShiftRight(q1, 1), BigOf(1))
             ELSE ShiftRight(q1, 1) :
             q1 \in { ShiftRight(m, r - 1) } } : TRUE

\* the double nearest to s * m * 2^e: the 53 leading bits of m, rounded
ToDouble(s, m, e) ==
    IF BitLen(m) <= 53 THEN Double(s, m, e)
    ELSE Double(s, RoundShift(m, BitLen(m) - 53), e + BitLen(m) - 53)

Sign(n) == IF n < 0 THEN -1 ELSE 1

\* the double nearest to n / d for integers n and d > 0: a float literal
\* (1.15 is the double nearest to 23/20), an int / int, float(n).  The
\* quotient is taken to more than 55 bits and its last bit tells whether
\* the division left a remainder
DoubleOf(n, d) ==
    CHOOSE out \in
      { ToDouble(Sign(n), BigAdd(BigMulSmall(qr[1], 2), BigOf(IF qr[2] # 0 THEN 1 ELSE 0)),
                 0 - (55 + IntBitLen(d)) - 1) :
        qr \in { BigDivRem(ShiftLeft(BigOf(Abs(n)), 55 + IntBitLen(d)), d) } } : TRUE

\* x * y
DMul(x, y) == ToDouble(x.s * y.s, BigMulBig(x.m, y.m), x.e + y.e)

\* x + y
DAdd(x, y) ==
    LET e == IF x.e < y.e THEN x.e ELSE y.e
    IN  CHOOSE out \in
          { IF x.s = y.s THEN ToDouble(x.s, BigAdd(ab[1], ab[2]), e)
            ELSE IF BigLess(ab[1], ab[2]) THEN ToDouble(y.s, BigSub(ab[2], ab[1]), e)
            ELSE ToDouble(x.s, BigSub(ab[1], ab[2]), e) :
            ab \in { << ShiftLeft(x.m, x.e - e), ShiftLeft(y.m, y.e - e) >> } } : TRUE

\* int(round(x)): a half goes to the even neighbour
IntRound(x) == x.s * BigToInt(RoundShift(x.m, 0 - x.e))

\* _calculate_footfall's day_multipliers, Monday first
DayMultipliers == << Q(5, 4), Q(23, 20), Q(11, 10), Q(21, 20), I(1), Q(7, 10), Q(1, 2) >>

\* _calculate_footfall's month_multipliers, January first
MonthMultipliers ==
    << Q(19, 20), Q(9, 10), I(1), Q(23, 20), Q(11, 10), Q(27, 20),
       Q(7, 5), Q(21, 20), I(1), Q(6, 5), Q(29, 20), Q(11, 10) >>

\* the float a literal or a draw stands for
Float(q) == DoubleOf(q.n, q.d)

\* day_mult: the weekday's multiplier, times 0.20 on a holiday, times 1.40
\* on the day after one (the generator's holidays are the feature
\* engineering's)
DayMult(t) ==
    IF IsHoliday(t) = 1 THEN DMul(Float(DayMultipliers[DayOfWeek(t) + 1]), Float(Q(1, 5)))
    ELSE IF IsHoliday(t - 1) = 1
    THEN DMul(Float(DayMultipliers[DayOfWeek(t) + 1]), Float(Q(7, 5)))
    ELSE Float(DayMultipliers[DayOfWeek(t) + 1])

\* month_mult: the month's multiplier, times 1.60 for a rural centre in
\* November
MonthMult(t, type) ==
    IF type = "Rural" /\ Month(t) = 11
    THEN DMul(Float(MonthMultipliers[Month(t)]), Float(Q(8, 5)))
    ELSE Float(MonthMultipliers[Month(t)])

\* week_of_month = (date.day - 1) // 7 + 1
WeekMult(t) ==
    LET week_of_month == (Day(t) - 1) \div 7 + 1
    IN  IF week_of_month = 1 THEN Float(Q(11, 10))
        ELSE IF week_of_month = 4 THEN Float(Q(19, 20))
        ELSE Float(I(1))

\* trend = 1.0 + (days_from_start / 365) * 0.05
Trend(t) == DAdd(Float(I(1)), DMul(DoubleOf(t, 365), Float(Q(1, 20))))

\* footfall = base * day_mult * month_mult * week_mult * type_variance *
\* trend, multiplied from left to right
FootfallProduct(t, info, type_variance) ==
    DMul(DMul(DMul(DMul(DMul(DoubleOf(info.base_footfall, 1), DayMult(t)),
                             MonthMult(t, info.type)),
                        WeekMult(t)),
                   Float(type_variance)),
         Trend(t))

\* _calculate_footfall: int(round(footfall + noise)); type_variance and
\* noise are the two draws of np.random.normal
CalculateFootfall(t, info, type_variance, noise) ==
    IntRound(DAdd(FootfallProduct(t, info, type_variance), Float(noise)))

\* the record of one entity and one date: 'footfall': max(0, footfall)
GeneratedRecord(t, info, type_variance, noise) ==
    [date |-> StrfTime(t),
     pincode |-> Str(info.pincode),
     district |-> info.district,
     state |-> info.state,
     center_type |-> info.type,
     footfall |-> CHOOSE out \in
                    { IF footfall < 0 THEN 0 ELSE footfall :
                      footfall \in { CalculateFootfall(t, info, type_variance, noise) } } :
                    TRUE]

\* generate_footfall_data(start_date, end_date): for every entity, for every
\* date of the range, one record; draws[k][j] are the two random draws of
\* the k-th entity on the j-th date
GenerateFootfallData(start, end, draws) ==
    LET n == end - start + 1
        F[k \in 0..Len(GeneratorPincodes)] ==
            IF k = 0 THEN <<>>
            ELSE F[k - 1] \o
                 [j \in 1..n |->
                     GeneratedRecord(start + j - 1, GeneratorPincodes[k],
                                     draws[k][j].type_variance, draws[k][j].noise)]
    IN  [cols |-> RawCols, rows |-> Seq1(F[Len(GeneratorPincodes)])]

(***************************************************************************)
(* The two data sources as operations: each writes the raw file and        *)
(* returns the table it wrote.                                             *)
(***************************************************************************)
\* entries of a raw UIDAI table: two of one centre on one day under the
\* same names in different case and spacing, one of that centre and day
\* under another spelling of district and state, one of that centre and day
\* under another category, one of the next day with a category that is no
\* key of the mapping, and one of a centre whose pincode is a digit short
UidaiEntries ==
    { [date |-> [day |-> StartDay, minute |-> 570], pincode |-> PinA,
       district |-> <<" ", "c", "e", "n", "t", "r", "a", "l", " ", "d", "e", "l", "h", "i", " ">>,
       state |-> <<"d", "e", "l", "h", "i">>,
       center_type |-> <<"U">>, footfall |-> 5],
      [date |-> [day |-> StartDay, minute |-> 840], pincode |-> PinA,
       district |-> <<"C", "E", "N", "T", "R", "A", "L", " ", "D", "E", "L", "H", "I">>,
       state |-> <<"D", "e", "l", "h", "i">>,
       center_type |-> <<"u", "r", "b", "a", "n">>, footfall |-> 7],
      [date |-> [day |-> StartDay, minute |-> 0], pincode |-> PinA,
       district |-> <<"N", "e", "w", " ", "D", "e", "l", "h", "i">>,
       state |-> <<"N", "C", "T", " ", "O", "f", " ", "D", "e", "l", "h", "i">>,
       center_type |-> <<"U", "r", "b", "a", "n">>, footfall |-> 3],
      [date |-> [day |-> StartDay, minute |-> 0], pincode |-> PinA,
       district |-> <<"C", "e", "n", "t", "r", "a", "l", " ", "D", "e", "l", "h", "i">>,
       state |-> <<"D", "e", "l", "h", "i">>,
       center_type |-> <<"R">>, footfall |-> 2],
      [date |-> [day |-> StartDay + 1, minute |-> 0], pincode |-> PinA,
       district |-> <<"C", "e", "n", "t", "r", "a", "l", " ", "D", "e", "l", "h", "i">>,
       state |-> <<"D", "e", "l", "h", "i">>,
       center_type |-> <<"M", "e", "t", "r", "o">>, footfall |-> 4],
      [date |-> [day |-> StartDay, minute |-> 0], pincode |-> PinShort,
       district |-> <<"n", "o", "r", "t", "h", " ", "d", "e", "l", "h", "i">>,
       state |-> <<"d", "e", "l", "h", "i">>,
       center_type |-> <<"s", "e", "m", "i", "_", "u", "r", "b", "a", "n">>, footfall |-> 6] }

\* how many entries a raw UIDAI table has at most
UidaiMaxRows == 3

\* the names of the columns of a raw table: UIDAI's, or the pipeline's
UidaiNamings ==
    { [c \in Range(RawCols) |->
          (CHOOSE m \in Range(UidaiColumnMapping) : m[2] = c)[1]],
      [c \in Range(RawCols) |-> c] }

UidaiTable(entries, naming) ==
    [cols |-> [i \in DOMAIN RawCols |-> naming[RawCols[i]]],
     rows |-> [i \in DOMAIN entries |->
                 [name \in { naming[c] : c \in Range(RawCols) } |->
                     entries[i][CHOOSE c \in Range(RawCols) : naming[c] = name]]]]

UidaiInputs ==
    { UidaiTable(entries, naming) :
        entries \in UNION { [1..n -> UidaiEntries] : n \in 1..UidaiMaxRows },
        naming \in UidaiNamings }

\* the first dates the generator is asked for: 2025-01-01, 2025-01-25 (the
\* day before a holiday that is a Sunday), 2025-03-13 and 2025-11-01
GenStarts == { 0, 24, 71, 304 }

\* how many dates the generator is asked for at most
GenDays == 3

\* draws of np.random.normal(1.0, sigma) and of np.random.normal(0, base * 0.08)
TypeVariances == << Q(17, 20), I(1), Q(23, 20) >>

Noises == << Q(-21, 2), I(0), Q(19, 2) >>

\* the draws of one run: every entity and date has its own
Draws(pv, pn, n) ==
    [k \in DOMAIN GeneratorPincodes |->
        [j \in 1..n |->
            [type_variance |-> TypeVariances[((k + j + pv) % 3) + 1],
             noise |-> Noises[((k + pn) % 3) + 1]]]]

InitSources ==
    /\ rawFile = NoFile
    /\ featFile = NoFile
    /\ modelFile = NoFile
    /\ metaFile = NoFile
    /\ predictor = NoPredictor
    /\ last = NoCall
    /\ trainPc = "idle"
    /\ loading = NotLoading

\* generator.generate_footfall_data(start_date, end_date)
GenerateData ==
    /\ last = NoCall
    /\ \E start \in GenStarts, n \in 1..GenDays, p \in 0..2 :
       \E df \in { GenerateFootfallData(start, start + n - 1, Draws(p, p, n)) } :
           /\ rawFile' = df
           /\ last' = [op |-> "generate_footfall_data", start_date |-> start,
                       end_date |-> start + n - 1, result |-> df]
    /\ UNCHANGED <<featFile, modelFile, metaFile, predictor, trainPc, loading>>

\* load_uidai_data(uidai_file_path) on a raw table
LoadUidai ==
    /\ last = NoCall
    /\ \E raw \in UidaiInputs :
       \E df \in { LoadUidaiData(raw) } :
           /\ rawFile' = df
           /\ last' = [op |-> "load_uidai_data", input |-> raw, result |-> df]
    /\ UNCHANGED <<featFile, modelFile, metaFile, predictor, trainPc, loading>>

NextSources == GenerateData \/ LoadUidai

SpecSources == InitSources /\ [][NextSources]_vars

\* the rows of a table that share their pincode and date with an earlier row
RepeatedKeys(df) ==
    { i \in DOMAIN df.rows :
        \E j \in 1..(i - 1) : /\ df.rows[j].pincode = df.rows[i].pincode
                              /\ df.rows[j].date = df.rows[i].date }

\* C30: every table a data source produces (generate_footfall_data, and
\* load_uidai_data for any raw input, also one with several entries per day
\* or with differing district, state or center_type spellings for one
\* pincode) has at most one row per (pincode, date), and every footfall in
\* the generator's output is >= 0
C30_UniqueKey ==
    last.op \in {"generate_footfall_data", "load_uidai_data"} =>
        /\ RepeatedKeys(last.result) = {}
        /\ last.op = "generate_footfall_data" =>
               \A i \in DOMAIN last.result.rows : last.result.rows[i].footfall >= 0

====
